---- MODULE Spec2Model ----
(***************************************************************************)
(* Model of the GitHub-Actions-YAML to Mermaid translation engine          *)
(* (src/src/lib/yaml-to-mermaid.ts, lines 1-692).                          *)
(*                                                                         *)
(* A JavaScript string is a sequence of one-character strings, so that     *)
(* trim, substring, startsWith and the character scans of the parser are   *)
(* computed as the code computes them.  Indices passed between operators   *)
(* are the 0-based indices of the source; s[i + 1] reads the source's      *)
(* s[i].                                                                   *)
(***************************************************************************)
EXTENDS Integers, Sequences, FiniteSets, TLC

VARIABLES pc, expr, baseId, ast, chain, yamlDoc, result, history

vars == <<pc, expr, baseId, ast, chain, yamlDoc, result, history>>

(***************************************************************************)
(* String helpers (String.prototype.trim / substring / startsWith).        *)
(***************************************************************************)
WhiteSpace == {" ", "\t", "\n"}

RECURSIVE firstKept(_, _)
firstKept(s, i) ==
    IF i > Len(s) THEN i ELSE IF s[i] \in WhiteSpace THEN firstKept(s, i + 1) ELSE i

RECURSIVE lastKept(_, _)
lastKept(s, i) ==
    IF i < 1 THEN i ELSE IF s[i] \in WhiteSpace THEN lastKept(s, i - 1) ELSE i

trim(s) ==
    LET from == firstKept(s, 1)
        to == lastKept(s, Len(s))
    IN  IF from > to THEN <<>> ELSE SubSeq(s, from, to)

\* s.substring(from, to) for 0 <= from <= to; to is clamped to s.length.
substring(s, from, to) ==
    SubSeq(s, from + 1, IF to > Len(s) THEN Len(s) ELSE to)

startsWith(s, c) == Len(s) > 0 /\ s[1] = c

(***************************************************************************)
(* Condition expression parser.                                            *)
(***************************************************************************)
\* The index (0-based) of the first parenthesis at or after index i, or the
\* length of the text: the loop of findMatchingParen only advances over every
\* other character.
nextParenIndex(e, i) ==
    IF \E j \in i..(Len(e) - 1) : e[j + 1] \in {"(", ")"}
    THEN CHOOSE j \in i..(Len(e) - 1) :
             /\ e[j + 1] \in {"(", ")"}
             /\ \A k \in i..(j - 1) : e[k + 1] \notin {"(", ")"}
    ELSE Len(e)

RECURSIVE findMatchingParenLoop(_, _, _)
findMatchingParenLoop(e, i, depth) ==
    LET n == nextParenIndex(e, i)
    IN  IF n >= Len(e) THEN -1
        ELSE IF e[n + 1] = "(" THEN findMatchingParenLoop(e, n + 1, depth + 1)
        ELSE IF depth - 1 = 0 THEN n
        ELSE findMatchingParenLoop(e, n + 1, depth - 1)

\* findMatchingParen that answers with the last closing parenthesis of the
\* text, whatever the depth (lines 245-249 without the count).
findMatchingParenLast(e, openIdx) ==
    IF \E j \in (openIdx + 1)..Len(e) : e[j] = ")"
    THEN (CHOOSE j \in (openIdx + 1)..Len(e) :
              e[j] = ")" /\ \A k \in (j + 1)..Len(e) : e[k] # ")") - 1
    ELSE -1

findMatchingParen(e, openIdx) == findMatchingParenLoop(e, openIdx, 0)

RECURSIVE stripOuterParens(_)
\* stripInner that removes one pair only: the loop of line 225 left after
\* its first round.
stripInnerOnce(trimmed, inner) == IF Len(inner) = 0 THEN trimmed ELSE inner

\* Lines 234-237: an empty inside ends the loop, else the loop goes on with it.
stripInner(trimmed, inner) == IF Len(inner) = 0 THEN trimmed ELSE stripOuterParens(inner)

\* Lines 226-234, on the trimmed text of one round.
stripTrimmed(trimmed) ==
    IF ~startsWith(trimmed, "(") THEN trimmed
    ELSE IF findMatchingParen(trimmed, 0) # Len(trimmed) - 1 THEN trimmed
    ELSE stripInner(trimmed, trim(SubSeq(trimmed, 2, Len(trimmed) - 1)))

stripOuterParens(e) == stripTrimmed(trim(e))

\* The scan of splitTopLevel: the raw parts, before trimming and filtering.
\* Whether the loop acts on the character at index i (0-based): it is a
\* parenthesis, or the operator starts there outside every parenthesis.
splitActsAt(e, operator, i, depth) ==
    \/ e[i + 1] \in {"(", ")"}
    \/ depth = 0 /\ substring(e, i, i + Len(operator)) = operator

\* The first index at or after i on which the loop acts, or the length of the
\* text: over every other character the loop only advances.
nextSplitIndex(e, operator, i, depth) ==
    IF \E j \in i..(Len(e) - 1) : splitActsAt(e, operator, j, depth)
    THEN CHOOSE j \in i..(Len(e) - 1) :
             /\ splitActsAt(e, operator, j, depth)
             /\ \A k \in i..(j - 1) : ~splitActsAt(e, operator, k, depth)
    ELSE Len(e)

RECURSIVE splitLoop(_, _, _, _, _, _)
splitLoop(e, operator, i, depth, start, parts) ==
    LET n == nextSplitIndex(e, operator, i, depth)
    IN  IF n >= Len(e) THEN Append(parts, substring(e, start, Len(e)))
        ELSE IF e[n + 1] = "(" THEN splitLoop(e, operator, n + 1, depth + 1, start, parts)
        ELSE IF e[n + 1] = ")" THEN splitLoop(e, operator, n + 1, depth - 1, start, parts)
        ELSE splitLoop(e, operator, n + Len(operator), depth,
                       n + Len(operator), Append(parts, substring(e, start, n)))

\* trimParts without the filter of line 275: an empty part stays.
trimPartsKeepEmpty(raw) == [k \in 1..Len(raw) |-> trim(raw[k])]

\* parts.map(p => p.trim()).filter(Boolean)
trimParts(raw) ==
    SelectSeq([k \in 1..Len(raw) |-> trim(raw[k])], LAMBDA p : p # <<>>)

splitTopLevel(e, operator) == trimParts(splitLoop(e, operator, 0, 0, 0, <<>>))

OrOp == <<"|", "|">>

AndOp == <<"&", "&">>

RECURSIVE parseConditionExpr(_)
\* parseParts with the two tests of lines 197 and 206 exchanged.
parsePartsAndFirst(e, orParts, andParts) ==
    IF Len(andParts) > 1
    THEN [type |-> "and",
          children |-> [k \in 1..Len(andParts) |-> parseConditionExpr(andParts[k])]]
    ELSE IF Len(orParts) > 1
    THEN [type |-> "or",
          children |-> [k \in 1..Len(orParts) |-> parseConditionExpr(orParts[k])]]
    ELSE [type |-> "atom", value |-> trim(e)]

\* Lines 197-214: the node for the stripped text and its two splits.
parseParts(e, orParts, andParts) ==
    IF Len(orParts) > 1
    THEN [type |-> "or",
          children |-> [k \in 1..Len(orParts) |-> parseConditionExpr(orParts[k])]]
    ELSE IF Len(andParts) > 1
    THEN [type |-> "and",
          children |-> [k \in 1..Len(andParts) |-> parseConditionExpr(andParts[k])]]
    ELSE [type |-> "atom", value |-> trim(e)]

\* Lines 196-214, on the stripped text.
parseStripped(e) == parseParts(e, splitTopLevel(e, OrOp), splitTopLevel(e, AndOp))

parseConditionExpr(e0) == parseStripped(stripOuterParens(trim(e0)))

IdChars ==
    {"a", "b", "c", "d", "e", "f", "g", "h", "i", "j", "k", "l", "m", "n", "o",
     "p", "q", "r", "s", "t", "u", "v", "w", "x", "y", "z",
     "A", "B", "C", "D", "E", "F", "G", "H", "I", "J", "K", "L", "M", "N", "O",
     "P", "Q", "R", "S", "T", "U", "V", "W", "X", "Y", "Z",
     "0", "1", "2", "3", "4", "5", "6", "7", "8", "9", "_"}

\* sanitizeId with a pattern that lacks the g flag: the first match only is
\* replaced.
sanitizeIdFirstMatch(name) ==
    [k \in 1..Len(name) |->
        IF name[k] \notin IdChars /\ \A j \in 1..(k - 1) : name[j] \in IdChars
        THEN "_" ELSE name[k]]

\* name.replace(/[^a-zA-Z0-9_]/g, '_')
sanitizeId(name) ==
    [k \in 1..Len(name) |-> IF name[k] \in IdChars THEN name[k] ELSE "_"]

\* One character of escapeLabel's two replacements.
escapeChar(c) ==
    IF c = "\"" THEN <<"#", "q", "u", "o", "t", ";">>
    ELSE IF c = "\n" THEN <<"<", "b", "r", "/", ">">>
    ELSE <<c>>

\* Both replacements over the whole text: the text up to the first character
\* that is replaced, its replacement, and the rest escaped in the same way.
RECURSIVE escapeAll(_)
escapeAll(text) ==
    IF \A k \in 1..Len(text) : escapeChar(text[k]) = <<text[k]>> THEN text
    ELSE LET j == CHOOSE k \in 1..Len(text) :
                      /\ escapeChar(text[k]) # <<text[k]>>
                      /\ \A m \in 1..(k - 1) : escapeChar(text[m]) = <<text[m]>>
         IN  SubSeq(text, 1, j - 1) \o escapeChar(text[j])
                 \o escapeAll(SubSeq(text, j + 1, Len(text)))

LabelMax == 80

escapeLabel(text) == substring(escapeAll(text), 0, LabelMax)

DigitChar == <<"0", "1", "2", "3", "4", "5", "6", "7", "8", "9">>

\* The decimal digits of a counter value, as `${n}` prints them.
RECURSIVE numberToString(_)
numberToString(n) ==
    IF n < 10 THEN <<DigitChar[n + 1]>>
    ELSE numberToString(n \div 10) \o <<DigitChar[(n % 10) + 1]>>

RECURSIVE flatten(_)
flatten(ss) == IF ss = <<>> THEN <<>> ELSE Head(ss) \o flatten(Tail(ss))

(***************************************************************************)
(* Condition badges.                                                       *)
(***************************************************************************)
AlwaysText == <<"a", "l", "w", "a", "y", "s", "(", ")">>

SuccessText == <<"s", "u", "c", "c", "e", "s", "s", "(", ")">>

FailureText == <<"f", "a", "i", "l", "u", "r", "e", "(", ")">>

CancelledText == <<"c", "a", "n", "c", "e", "l", "l", "e", "d", "(", ")">>

\* CONDITION_STYLES; icon names stand for the emoji of the source.
CONDITION_STYLES ==
    << [key |-> AlwaysText, icon |-> "icon_always",
        label |-> <<"A", "l", "w", "a", "y", "s", " ", "R", "u", "n">>,
        className |-> "condAlways", fill |-> "#4A90D9", stroke |-> "#2E6EB5"],
       [key |-> SuccessText, icon |-> "icon_success",
        label |-> <<"S", "u", "c", "c", "e", "s", "s", " ", "O", "n", "l", "y">>,
        className |-> "condSuccess", fill |-> "#28A745", stroke |-> "#1E7E34"],
       [key |-> FailureText, icon |-> "icon_failure",
        label |-> <<"F", "a", "i", "l", "u", "r", "e", " ", "O", "n", "l", "y">>,
        className |-> "condFailure", fill |-> "#DC3545", stroke |-> "#BD2130"],
       [key |-> CancelledText, icon |-> "icon_cancelled",
        label |-> <<"C", "a", "n", "c", "e", "l", "l", "e", "d">>,
        className |-> "condCancelled", fill |-> "#FD7E14", stroke |-> "#E36209"] >>

CUSTOM_CONDITION_STYLE ==
    [icon |-> "icon_custom", className |-> "condCustom",
     fill |-> "#6C757D", stroke |-> "#545B62"]

normalizeCondition(condText) == trim(condText)

\* Lines 128-131, on the trimmed text.
negationOf(trimmed) ==
    IF startsWith(trimmed, "!")
    THEN [negated |-> TRUE, inner |-> trim(Tail(trimmed))]
    ELSE [negated |-> FALSE, inner |-> trimmed]

parseNegation(condText) == negationOf(trim(condText))

\* The property names CONDITION_STYLES, an object literal, inherits from
\* Object.prototype.
ObjectPrototypeKeys ==
    {<<"c", "o", "n", "s", "t", "r", "u", "c", "t", "o", "r">>,
     <<"t", "o", "S", "t", "r", "i", "n", "g">>,
     <<"t", "o", "L", "o", "c", "a", "l", "e", "S", "t", "r", "i", "n", "g">>,
     <<"v", "a", "l", "u", "e", "O", "f">>,
     <<"h", "a", "s", "O", "w", "n", "P", "r", "o", "p", "e", "r", "t", "y">>,
     <<"i", "s", "P", "r", "o", "t", "o", "t", "y", "p", "e", "O", "f">>,
     <<"p", "r", "o", "p", "e", "r", "t", "y", "I", "s", "E", "n", "u", "m", "e", "r", "a", "b", "l", "e">>,
     <<"_", "_", "p", "r", "o", "t", "o", "_", "_">>,
     <<"_", "_", "d", "e", "f", "i", "n", "e", "G", "e", "t", "t", "e", "r", "_", "_">>,
     <<"_", "_", "d", "e", "f", "i", "n", "e", "S", "e", "t", "t", "e", "r", "_", "_">>,
     <<"_", "_", "l", "o", "o", "k", "u", "p", "G", "e", "t", "t", "e", "r", "_", "_">>,
     <<"_", "_", "l", "o", "o", "k", "u", "p", "S", "e", "t", "t", "e", "r", "_", "_">>}

UndefinedText == <<"u", "n", "d", "e", "f", "i", "n", "e", "d">>

\* What a lookup of an inherited name yields: a function or an object, which
\* is truthy and has no icon, label or className; a template literal prints
\* each of them as `undefined`.
inheritedStyle(key) ==
    [key |-> key, icon |-> "undefined", label |-> UndefinedText,
     className |-> "undefined", fill |-> "undefined", stroke |-> "undefined"]

\* CONDITION_STYLES[key] ?? null, as the sequence of matching entries: the
\* object's own entry, or the property inherited under this name.
lookupStyle(key) ==
    IF key \in ObjectPrototypeKeys THEN <<inheritedStyle(key)>>
    ELSE SelectSeq(CONDITION_STYLES, LAMBDA st : st.key = key)

\* isAlwaysCondition without the negation test of line 146.
isAlwaysConditionAnySign(condText) ==
    normalizeCondition(parseNegation(condText).inner) = AlwaysText

\* Lines 146-147, on the parsed negation.
isAlwaysParsed(pn) ==
    IF pn.negated THEN FALSE ELSE normalizeCondition(pn.inner) = AlwaysText

isAlwaysCondition(condText) == isAlwaysParsed(parseNegation(condText))

NotPrefix == <<"N", "O", "T", " ">>

\* Lines 160-168, for the looked-up style.
formatStyled(condId, condText, indent, negated, style) ==
    IF style # <<>>
    THEN IF negated
         THEN [k |-> "node", indent |-> indent, id |-> condId, shape |-> "stadium",
               icon |-> style[1].icon, text |-> NotPrefix \o style[1].label,
               class |-> style[1].className \o "Neg"]
         ELSE [k |-> "node", indent |-> indent, id |-> condId, shape |-> "stadium",
               icon |-> style[1].icon, text |-> style[1].label,
               class |-> style[1].className]
    ELSE [k |-> "node", indent |-> indent, id |-> condId, shape |-> "diamond",
          icon |-> CUSTOM_CONDITION_STYLE.icon, text |-> escapeLabel(condText),
          class |-> CUSTOM_CONDITION_STYLE.className]

\* Line 158, for the parsed negation.
formatParsed(condId, condText, indent, pn) ==
    formatStyled(condId, condText, indent, pn.negated,
                 lookupStyle(normalizeCondition(pn.inner)))

formatConditionNode(condId, condText, indent) ==
    formatParsed(condId, condText, indent, parseNegation(condText))

(***************************************************************************)
(* Chain compiler.  An edge label of "" stands for an undefined label: the *)
(* code only ever tests the label's truthiness.                            *)
(***************************************************************************)
\* A thrown exception, as the value an operator yields in place of its result.
TypeError == [error |-> "TypeError"]

IsThrown(v) == "error" \in DOMAIN v

edgeLine(indent, from, arrow, label, to) ==
    [k |-> "edge", indent |-> indent, from |-> from, arrow |-> arrow,
     label |-> label, to |-> to]

\* The chain of one badge (lines 341-348 and 315-322).
atomChainOf(nodeId, value, indent, partIsAlways) ==
    [nodeLines |-> <<formatConditionNode(nodeId, value, indent)>>,
     internalEdges |-> <<>>,
     entryId |-> nodeId,
     toTargetEdges |-> <<[fromId |-> nodeId,
                          label |-> IF partIsAlways THEN "" ELSE "Yes"]>>,
     skipSourceIds |-> IF partIsAlways THEN <<>> ELSE <<nodeId>>,
     isFullyAlways |-> partIsAlways]

atomChain(nodeId, value, indent) ==
    atomChainOf(nodeId, value, indent, isAlwaysCondition(value))

\* andEdges that connects only the first target edge of each earlier child.
andEdgesFirstOutput(children, indent) ==
    [i \in 1..(Len(children) - 1) |->
        edgeLine(indent, children[i].toTargetEdges[1].fromId, "-->", "AND",
                 children[i + 1].entryId)]

\* The AND edges pushed by mergeANDChains' double loop.
andEdges(children, indent) ==
    flatten([i \in 1..(Len(children) - 1) |->
        [j \in 1..Len(children[i].toTargetEdges) |->
            edgeLine(indent, children[i].toTargetEdges[j].fromId, "-->", "AND",
                     children[i + 1].entryId)]])

\* andResult that takes the flag of the last child for the flag of the whole.
andResultLastAlways(children, indent, skipSourceIds) ==
    [nodeLines |-> flatten([i \in 1..Len(children) |-> children[i].nodeLines]),
     internalEdges |->
         flatten([i \in 1..Len(children) |-> children[i].internalEdges])
             \o andEdges(children, indent),
     entryId |-> children[1].entryId,
     toTargetEdges |-> children[Len(children)].toTargetEdges,
     skipSourceIds |-> skipSourceIds,
     isFullyAlways |-> children[Len(children)].isFullyAlways]

\* children[0].entryId on an empty list reads a property of undefined.
\* Lines 381-389, for the flattened skip sources.
andResult(children, indent, skipSourceIds) ==
    [nodeLines |-> flatten([i \in 1..Len(children) |-> children[i].nodeLines]),
     internalEdges |->
         flatten([i \in 1..Len(children) |-> children[i].internalEdges])
             \o andEdges(children, indent),
     entryId |-> children[1].entryId,
     toTargetEdges |-> children[Len(children)].toTargetEdges,
     skipSourceIds |-> skipSourceIds,
     isFullyAlways |-> Len(skipSourceIds) = 0]

\* mergeANDChains that takes the exits of its last child for its own.
mergeANDChainsLastExit(children, indent) ==
    IF children = <<>> THEN TypeError
    ELSE andResult(children, indent, children[Len(children)].skipSourceIds)

mergeANDChains(children, indent) ==
    IF children = <<>> THEN TypeError
    ELSE andResult(children, indent,
                   flatten([i \in 1..Len(children) |-> children[i].skipSourceIds]))

\* orEdges that joins only the last exit of each earlier child (the inner
\* loop of lines 404-406 run for one id).
orEdgesLastExit(children, indent) ==
    flatten([i \in 1..(Len(children) - 1) |->
        IF children[i].skipSourceIds = <<>> THEN <<>>
        ELSE <<edgeLine(indent,
                        children[i].skipSourceIds[Len(children[i].skipSourceIds)],
                        "-.->", "OR", children[i + 1].entryId)>>])

orEdges(children, indent) ==
    flatten([i \in 1..(Len(children) - 1) |->
        [j \in 1..Len(children[i].skipSourceIds) |->
            edgeLine(indent, children[i].skipSourceIds[j], "-.->", "OR",
                     children[i + 1].entryId)]])

\* mergeORChains keeping only the last alternative's target edges.
mergeORChainsLastTarget(children, indent) ==
    IF children = <<>> THEN TypeError
    ELSE
    [nodeLines |-> flatten([i \in 1..Len(children) |-> children[i].nodeLines]),
     internalEdges |->
         flatten([i \in 1..Len(children) |-> children[i].internalEdges])
             \o orEdges(children, indent),
     entryId |-> children[1].entryId,
     toTargetEdges |-> children[Len(children)].toTargetEdges,
     skipSourceIds |-> children[Len(children)].skipSourceIds,
     isFullyAlways |-> \A i \in 1..Len(children) : children[i].isFullyAlways]

\* mergeORChains that takes the exits of all its children for its own.
mergeORChainsAllExits(children, indent) ==
    IF children = <<>> THEN TypeError
    ELSE
    [nodeLines |-> flatten([i \in 1..Len(children) |-> children[i].nodeLines]),
     internalEdges |->
         flatten([i \in 1..Len(children) |-> children[i].internalEdges])
             \o orEdges(children, indent),
     entryId |-> children[1].entryId,
     toTargetEdges |-> flatten([i \in 1..Len(children) |-> children[i].toTargetEdges]),
     skipSourceIds |-> flatten([i \in 1..Len(children) |-> children[i].skipSourceIds]),
     isFullyAlways |-> \A i \in 1..Len(children) : children[i].isFullyAlways]

\* mergeORChains whose flag holds when some child's does (line 418 with some
\* in place of every).
mergeORChainsAnyAlways(children, indent) ==
    IF children = <<>> THEN TypeError
    ELSE
    [nodeLines |-> flatten([i \in 1..Len(children) |-> children[i].nodeLines]),
     internalEdges |->
         flatten([i \in 1..Len(children) |-> children[i].internalEdges])
             \o orEdges(children, indent),
     entryId |-> children[1].entryId,
     toTargetEdges |-> flatten([i \in 1..Len(children) |-> children[i].toTargetEdges]),
     skipSourceIds |-> children[Len(children)].skipSourceIds,
     isFullyAlways |-> \E i \in 1..Len(children) : children[i].isFullyAlways]

mergeORChains(children, indent) ==
    IF children = <<>> THEN TypeError
    ELSE
    [nodeLines |-> flatten([i \in 1..Len(children) |-> children[i].nodeLines]),
     internalEdges |->
         flatten([i \in 1..Len(children) |-> children[i].internalEdges])
             \o orEdges(children, indent),
     entryId |-> children[1].entryId,
     toTargetEdges |-> flatten([i \in 1..Len(children) |-> children[i].toTargetEdges]),
     skipSourceIds |-> children[Len(children)].skipSourceIds,
     isFullyAlways |-> \A i \in 1..Len(children) : children[i].isFullyAlways]

\* generateChainFromAST returns the chain and the counter's value afterwards:
\* the counter object is shared by the whole recursion.  An exception thrown
\* while a child is compiled ends the whole compilation.
RECURSIVE generateChainFromAST(_, _, _, _)
RECURSIVE childResults(_, _, _, _)
\* Lines 356-359: the merge of the children's chains.
mergeChildren(type, cr, indent) ==
    [chain |-> IF cr.threw THEN TypeError
               ELSE IF type = "and" THEN mergeANDChains(cr.results, indent)
               ELSE mergeORChains(cr.results, indent),
     counter |-> cr.counter]

generateChainFromAST(baseCondId, a, indent, counter) ==
    IF a.type = "atom"
    THEN [chain |-> atomChain(baseCondId \o <<"_", "p">> \o numberToString(counter),
                              a.value, indent),
          counter |-> counter + 1]
    ELSE mergeChildren(a.type, childResults(baseCondId, a.children, indent, counter),
                       indent)

\* childResults with the counter passed by value: every child starts from
\* the count its parent started from.
childResultsByValue(baseCondId, children, indent, counter) ==
    IF children = <<>> THEN [results |-> <<>>, counter |-> counter, threw |-> FALSE]
    ELSE LET first == generateChainFromAST(baseCondId, Head(children), indent, counter)
             rest == childResults(baseCondId, Tail(children), indent, counter)
         IN  [results |-> <<first.chain>> \o rest.results,
              counter |-> first.counter, threw |-> rest.threw]

\* The chains of the children, left to right, the counter running through.
restResults(baseCondId, children, indent, first) ==
    IF IsThrown(first.chain)
    THEN [results |-> <<>>, counter |-> first.counter, threw |-> TRUE]
    ELSE LET rest == childResults(baseCondId, Tail(children), indent, first.counter)
         IN  [results |-> <<first.chain>> \o rest.results,
              counter |-> rest.counter, threw |-> rest.threw]

childResults(baseCondId, children, indent, counter) ==
    IF children = <<>> THEN [results |-> <<>>, counter |-> counter, threw |-> FALSE]
    ELSE restResults(baseCondId, children, indent,
                     generateChainFromAST(baseCondId, Head(children), indent, counter))

\* chainOfAST with a part counter that outlives the call: it starts from the
\* number of translations that ran before.
chainOfASTCarried(baseCondId, a, indent) ==
    IF a.type = "atom" THEN atomChain(baseCondId, a.value, indent)
    ELSE generateChainFromAST(baseCondId, a, indent, Len(history)).chain

\* Lines 313-327, for the parsed guard.
chainOfAST(baseCondId, a, indent) ==
    IF a.type = "atom" THEN atomChain(baseCondId, a.value, indent)
    ELSE generateChainFromAST(baseCondId, a, indent, 0).chain

generateConditionChain(baseCondId, condText, indent) ==
    chainOfAST(baseCondId, parseConditionExpr(trim(condText)), indent)

(***************************************************************************)
(* Guard compilation as a state machine: a guard text reaches              *)
(* generateConditionChain from a job (generateJobConditionNodes) or from a *)
(* step (generateJob); the call parses it and compiles the chain.          *)
(***************************************************************************)
MaxFrags == 5

MaxLeaves == 4

MaxSpaced == 3

\* Syntax-level inputs: any run of parentheses, operators and an operand,
\* balanced or not.
Fragments == {<<"x">>, <<"(">>, <<")">>, AndOp, OrOp}

FragTexts ==
    {flatten(fs) : fs \in UNION {[1..n -> Fragments] : n \in 1..MaxFrags}}

\* Inputs with white space, negation and recognized guards.
SpacedFragments == {<<" ">>, <<"!">>, AlwaysText, <<"x">>, AndOp}

SpacedTexts ==
    {flatten(fs) : fs \in UNION {[1..n -> SpacedFragments] : n \in 1..MaxSpaced}}

\* Well-formed inputs: the texts of the expression trees with up to MaxLeaves
\* leaves over an always-true and a falsifiable guard.
TreeAtoms == {AlwaysText, <<"!">> \o AlwaysText}

RECURSIVE TreesWith(_)
RECURSIVE TreeSeqs(_)
\* The sequences of two or more trees with n leaves in all.
TreeSeqs(n) ==
    UNION {{<<t>> \o r : t \in TreesWith(m),
                         r \in TreeSeqs(n - m) \cup {<<u>> : u \in TreesWith(n - m)}}
           : m \in 1..(n - 1)}

TreesWith(n) ==
    IF n = 1 THEN {[type |-> "atom", value |-> v] : v \in TreeAtoms}
    ELSE {[type |-> op, children |-> cs] : op \in {"and", "or"}, cs \in TreeSeqs(n)}

Trees == UNION {TreesWith(n) : n \in 1..MaxLeaves}

opText(type) == IF type = "and" THEN <<" ">> \o AndOp \o <<" ">>
                ELSE <<" ">> \o OrOp \o <<" ">>

RECURSIVE joinWith(_, _)
joinWith(texts, sep) ==
    IF Len(texts) = 1 THEN texts[1] ELSE texts[1] \o sep \o joinWith(Tail(texts), sep)

\* The text of a tree: children joined by the node's operator; a composite
\* child is parenthesized unless it is an `and` directly under an `or`.
RECURSIVE printAST(_, _)
printAST(a, parentType) ==
    IF a.type = "atom" THEN a.value
    ELSE LET body == joinWith([k \in 1..Len(a.children) |->
                                   printAST(a.children[k], a.type)], opText(a.type))
         IN  IF parentType = "none" \/ (a.type = "and" /\ parentType = "or") THEN body
             ELSE <<"(">> \o body \o <<")">>

TreeTexts == {printAST(t, "none") : t \in Trees}

\* The guards of the README's examples.
EventGuard ==
    <<"g", "i", "t", "h", "u", "b", ".", "e", "v", "e", "n", "t", "_", "n", "a", "m", "e",
      " ", "=", "=", " ", "'", "p", "u", "s", "h", "'">>

RefGuard ==
    <<"g", "i", "t", "h", "u", "b", ".", "r", "e", "f", " ", "=", "=", " ",
      "'", "r", "e", "f", "s", "/", "h", "e", "a", "d", "s", "/", "m", "a", "i", "n", "'">>

ReadmeAnd == AlwaysText \o opText("and") \o EventGuard

ReadmeOr == FailureText \o opText("or") \o CancelledText

ReadmeMixed == <<"(">> \o ReadmeOr \o <<")">> \o opText("and") \o RefGuard

ReadmeTexts == {ReadmeAnd, ReadmeOr, ReadmeMixed}

\* Guards that single out the cases of the badge lookup: negated recognized
\* guards, a doubled negation, another letter case, names that are no guard.
BadgeTexts ==
    {<<"!">> \o CancelledText, <<"!", " ">> \o SuccessText, <<"!", "!">> \o AlwaysText,
     <<"A", "l", "w", "a", "y", "s", "(", ")">>, <<"t", "o", "S", "t", "r", "i", "n", "g">>, <<"!", "c", "o", "n", "s", "t", "r", "u", "c", "t", "o", "r">>,
     FailureText \o opText("and") \o <<"v", "a", "l", "u", "e", "O", "f">>}

\* Parentheses around white space and white space around parentheses.
ParenTexts ==
    {<<"(", " ", ")">>, <<"(", "(", " ", ")", ")">>, <<"(", " ", "(", "x", ")", " ", ")">>,
     <<" ", "(", "x", ")", " ">>, <<"(", " ", "x", " ", ")">>,
     <<"(", "(">> \o AlwaysText \o <<")", ")">>}

\* Every call site tests the guard's truthiness first: no empty text arrives.
GuardTexts ==
    FragTexts \cup SpacedTexts \cup TreeTexts \cup ReadmeTexts \cup BadgeTexts \cup ParenTexts

JobCondId == <<"c", "o", "n", "d", "_", "j", "o", "b", "_", "a">>

StepCondId == <<"c", "o", "n", "d", "_", "a", "_", "s", "0">>

\* (baseCondId, indent) of the two kinds of call site.
CallSites == {[id |-> JobCondId, indent |-> "  "], [id |-> StepCondId, indent |-> "    "]}

NoValue == [type |-> "none"]

GuardInit ==
    /\ pc = "ready"
    /\ expr \in GuardTexts
    /\ baseId = <<>>
    /\ ast = NoValue
    /\ chain = NoValue
    /\ yamlDoc = NoValue
    /\ result = NoValue
    /\ history = <<>>

GenerateConditionChain ==
    /\ pc = "ready"
    /\ \E site \in CallSites :
        /\ baseId' = site.id
        /\ ast' = parseConditionExpr(trim(expr))
        /\ chain' = generateConditionChain(site.id, expr, site.indent)
    /\ pc' = "compiled"
    /\ UNCHANGED <<expr, yamlDoc, result, history>>

GuardNext == GenerateConditionChain

SpecGuard == GuardInit /\ [][GuardNext]_vars

(***************************************************************************)
(* Reading a tree and a compiled chain: the leaves of a tree are numbered  *)
(* left to right from 1, and leaf i is drawn as the chain's i-th node.     *)
(***************************************************************************)
RECURSIVE leafTexts(_)
leafTexts(a) ==
    IF a.type = "atom" THEN <<a.value>>
    ELSE flatten([k \in 1..Len(a.children) |-> leafTexts(a.children[k])])

leafCount(a) == Len(leafTexts(a))

\* The number of leaves to the left of child k of a composite node.
RECURSIVE leavesBefore(_, _)
leavesBefore(a, k) ==
    IF k = 1 THEN 0 ELSE leavesBefore(a, k - 1) + leafCount(a.children[k - 1])

\* The value of the tree under val, its leaves being offset + 1, offset + 2, ...
RECURSIVE evalAST(_, _, _)
evalAST(a, val, offset) ==
    IF a.type = "atom" THEN val[offset + 1]
    ELSE IF a.type = "and"
    THEN \A k \in 1..Len(a.children) :
             evalAST(a.children[k], val, offset + leavesBefore(a, k))
    ELSE \E k \in 1..Len(a.children) :
             evalAST(a.children[k], val, offset + leavesBefore(a, k))

\* The truth assignments to the leaves; an unnegated always() is true.
Assignments(a) ==
    {val \in [1..leafCount(a) -> BOOLEAN] :
        \A i \in 1..leafCount(a) : leafTexts(a)[i] = AlwaysText => val[i]}

SeqRange(q) == {q[i] : i \in 1..Len(q)}

TargetMark == <<"TARGET">>

ExitMark == <<"EXIT">>

nodeIndex(c, id) == CHOOSE i \in 1..Len(c.nodeLines) : c.nodeLines[i].id = id

edgesFrom(c, id, label) ==
    {e \in SeqRange(c.internalEdges) : e.from = id /\ e.label = label}

\* Where a node leads when its guard holds: along an AND edge or to the target.
successSet(c, id) ==
    {e.to : e \in edgesFrom(c, id, "AND")}
        \cup (IF \E t \in SeqRange(c.toTargetEdges) : t.fromId = id
              THEN {TargetMark} ELSE {})

\* Where a node leads when its guard fails: along an OR edge or out of the chain.
failureSet(c, id) ==
    {e.to : e \in edgesFrom(c, id, "OR")}
        \cup (IF id \in SeqRange(c.skipSourceIds) THEN {ExitMark} ELSE {})

RECURSIVE walk(_, _, _, _)
walk(c, val, id, fuel) ==
    IF id = TargetMark THEN "target"
    ELSE IF id = ExitMark THEN "exit"
    ELSE IF fuel = 0 THEN "loop"
    ELSE LET nxt == IF val[nodeIndex(c, id)] THEN successSet(c, id)
                    ELSE failureSet(c, id)
         IN  IF Cardinality(nxt) # 1 THEN "stuck"
             ELSE walk(c, val, CHOOSE n \in nxt : TRUE, fuel - 1)

walkFromEntry(c, a, val) == walk(c, val, c.entryId, leafCount(a) + 1)

\* C5: for every tree and every truth assignment to its atoms (an unnegated
\* always() being true), the walk from the chain's entry that leaves each node
\* by its success edge when its guard holds and by its failure edge when it
\* fails ends at the target exactly when the expression is true and in the
\* exit set exactly when it is false.
C5_ShortCircuit ==
    pc = "compiled" =>
        \A val \in Assignments(ast) :
            /\ (walkFromEntry(chain, ast, val) = "target") <=> evalAST(ast, val, 0)
            /\ (walkFromEntry(chain, ast, val) = "exit") <=> ~evalAST(ast, val, 0)

\* An AND over an OR group, with a failing walk that falls through an OR edge
\* and a passing walk that crosses an AND edge.
C5_Witness ==
    /\ pc = "compiled"
    /\ ast.type = "and"
    /\ ast.children[1].type = "or"
    /\ \E val \in Assignments(ast) :
           ~val[1] /\ val[2] /\ walkFromEntry(chain, ast, val) = "target"
    /\ \E val \in Assignments(ast) :
           ~val[1] /\ ~val[2] /\ walkFromEntry(chain, ast, val) = "exit"

(***************************************************************************)
(* The deserialized workflow.  yaml.load yields an arbitrary JavaScript    *)
(* value, so every field carries its type: [t |-> "undef"], [t |-> "null"],*)
(* [t |-> "str", s |-> text], [t |-> "bool", b |-> flag],                  *)
(* [t |-> "arr", items |-> sequence] or an object with its own fields.  A  *)
(* mapping is the sequence of its entries in insertion order.              *)
(***************************************************************************)
Undefined == [t |-> "undef"]

Null == [t |-> "null"]

Str(s) == [t |-> "str", s |-> s]

Bool(b) == [t |-> "bool", b |-> b]

Arr(items) == [t |-> "arr", items |-> items]

\* JavaScript truthiness of a value.
truthy(v) ==
    IF v.t \in {"undef", "null"} THEN FALSE
    ELSE IF v.t = "str" THEN v.s # <<>>
    ELSE IF v.t = "bool" THEN v.b
    ELSE TRUE

\* The outcome of a list of lines, or of the exception that ended it.
Lines(ls) == [threw |-> FALSE, lines |-> ls]

Throws == [threw |-> TRUE, lines |-> <<>>]

\* Run the parts in order; the first exception ends the run.
RECURSIVE inOrder(_)
inOrder(parts) ==
    IF parts = <<>> THEN Lines(<<>>)
    ELSE IF Head(parts).threw THEN Throws
    ELSE LET rest == inOrder(Tail(parts))
         IN  IF rest.threw THEN Throws ELSE Lines(Head(parts).lines \o rest.lines)

nodeLine(indent, id, shape, text) ==
    [k |-> "node", indent |-> indent, id |-> id, shape |-> shape, icon |-> "",
     text |-> text, class |-> ""]

subgraphLine(indent, id, label) ==
    [k |-> "subgraph", indent |-> indent, id |-> id, label |-> label]

endLine(indent) == [k |-> "end", indent |-> indent]

(***************************************************************************)
(* Triggers.                                                               *)
(***************************************************************************)
CommaSpace == <<",", " ">>

\* Array.prototype.join(', ') over strings.
joinComma(items) ==
    IF items = <<>> THEN <<>> ELSE joinWith(items, CommaSpace)

\* One filter of a trigger configuration: `${key}: ${list.join(', ')}`.  The
\* value is joined whatever it is: a string has no join method.
filterDetail(key, value) ==
    IF ~truthy(value) THEN [threw |-> FALSE, details |-> <<>>]
    ELSE IF value.t # "arr" THEN [threw |-> TRUE, details |-> <<>>]
    ELSE [threw |-> FALSE, details |-> <<key \o <<":", " ">> \o joinComma(value.items)>>]

\* One entry of the `on` mapping.
triggerInfo(name, config) ==
    IF ~truthy(config) \/ config.t \notin {"obj", "arr"}
    THEN [threw |-> FALSE, name |-> name, detail |-> <<>>]
    ELSE IF name = <<"s", "c", "h", "e", "d", "u", "l", "e">> /\ config.t = "arr"
    THEN [threw |-> FALSE, name |-> name,
          detail |-> joinComma(SelectSeq(config.items, LAMBDA c : c # <<>>))]
    ELSE IF config.t = "arr"
    THEN [threw |-> FALSE, name |-> name, detail |-> <<>>]
    ELSE LET b == filterDetail(<<"b", "r", "a", "n", "c", "h", "e", "s">>, config.branches)
             g == filterDetail(<<"t", "a", "g", "s">>, config.tags)
             p == filterDetail(<<"p", "a", "t", "h", "s">>, config.paths)
             y == filterDetail(<<"t", "y", "p", "e", "s">>, config.types)
             details == b.details \o g.details \o p.details \o y.details
         IN  IF b.threw \/ g.threw \/ p.threw \/ y.threw
             THEN [threw |-> TRUE, name |-> name, detail |-> <<>>]
             ELSE [threw |-> FALSE, name |-> name, detail |-> joinComma(details)]

\* parseTriggers: the trigger infos, or an exception.
parseTriggers(on) ==
    IF on.t = "str" THEN [threw |-> FALSE, infos |-> <<[name |-> on.s, detail |-> <<>>]>>]
    ELSE IF on.t = "arr"
    THEN [threw |-> FALSE,
          infos |-> [i \in 1..Len(on.items) |-> [name |-> on.items[i], detail |-> <<>>]]]
    ELSE IF on.t = "map"
    THEN LET infos == [i \in 1..Len(on.entries) |->
                          triggerInfo(on.entries[i].name, on.entries[i].config)]
         IN  IF \E i \in 1..Len(infos) : infos[i].threw
             THEN [threw |-> TRUE, infos |-> <<>>]
             ELSE [threw |-> FALSE,
                   infos |-> [i \in 1..Len(infos) |->
                                 [name |-> infos[i].name, detail |-> infos[i].detail]]]
    ELSE [threw |-> FALSE, infos |-> <<[name |-> <<"u", "n", "k", "n", "o", "w", "n">>, detail |-> <<>>]>>]

TriggersId == <<"t", "r", "i", "g", "g", "e", "r", "s">>

generateTriggers(on) ==
    LET triggers == parseTriggers(on)
    IN  IF triggers.threw THEN Throws
        ELSE Lines(
            <<subgraphLine("  ", TriggersId, <<"T", "r", "i", "g", "g", "e", "r", "s">>)>>
            \o [i \in 1..Len(triggers.infos) |->
                   nodeLine("    ", <<"t", "r", "i", "g", "g", "e", "r", "_">> \o sanitizeId(triggers.infos[i].name), "rect",
                            IF triggers.infos[i].detail # <<>>
                            THEN triggers.infos[i].name \o <<"<", "b", "r", "/", ">">>
                                     \o escapeLabel(triggers.infos[i].detail)
                            ELSE triggers.infos[i].name)]
            \o <<endLine("  ")>>)

(***************************************************************************)
(* Jobs.  A job mapping is the sequence of its [name, job] entries; a job  *)
(* is Null (a key with no value) or an object with the fields name,        *)
(* runsOn, needs, if, steps and uses; a step is Null or an object with the *)
(* fields name, uses, run and if.                                          *)
(***************************************************************************)
\* What jobs[name] yields for a name the mapping does not declare but
\* inherits from Object.prototype: a function, whose name property is the
\* function's name (Object for constructor), or the prototype object itself;
\* it has none of the fields of a job.
inheritedJob(name) ==
    [t |-> "fn",
     name |-> IF name = <<"_", "_", "p", "r", "o", "t", "o", "_", "_">> THEN Undefined
              ELSE IF name = <<"c", "o", "n", "s", "t", "r", "u", "c", "t", "o", "r">>
              THEN Str(<<"O", "b", "j", "e", "c", "t">>)
              ELSE Str(name),
     runsOn |-> Undefined, needs |-> Undefined, if |-> Undefined, steps |-> Undefined,
     uses |-> Undefined]

\* jobs[name]: the declared job's value, the property the mapping (a plain
\* object) inherits under this name, or undefined.
jobAt(jobs, name) ==
    IF \E i \in 1..Len(jobs) : jobs[i].name = name
    THEN jobs[CHOOSE i \in 1..Len(jobs) : jobs[i].name = name].job
    ELSE IF name \in ObjectPrototypeKeys THEN inheritedJob(name)
    ELSE Undefined

\* Array.isArray(job.needs) ? job.needs : [job.needs]
needsList(job) == IF job.needs.t = "arr" THEN job.needs.items ELSE <<job.needs.s>>

jobNodeId(jobName) == <<"j", "o", "b", "_">> \o sanitizeId(jobName)

jobCondId(jobName) == <<"c", "o", "n", "d", "_", "j", "o", "b", "_">> \o sanitizeId(jobName)

\* guardChain of a compiler that rejects a guard with unbalanced parentheses.
guardChainBalanced(condId, guard, indent) ==
    IF guard.t # "str" THEN TypeError
    ELSE IF Len(SelectSeq(guard.s, LAMBDA c : c = "("))
                # Len(SelectSeq(guard.s, LAMBDA c : c = ")"))
    THEN TypeError
    ELSE generateConditionChain(condId, guard.s, indent)

\* The guard of a job or step reaches generateConditionChain as it is: a value
\* that is no string has no trim method.
guardChain(condId, guard, indent) ==
    IF guard.t # "str" THEN TypeError ELSE generateConditionChain(condId, guard.s, indent)

\* The lines of one job's guard, for generateJobConditionNodes.
\* Lines 514-515: the chain's node lines, then its internal edges.
chainLines(c) == IF IsThrown(c) THEN Throws ELSE Lines(c.nodeLines \o c.internalEdges)

jobConditionLines(entry) ==
    IF entry.job.t # "obj" THEN Throws
    ELSE IF ~truthy(entry.job.if) THEN Lines(<<>>)
    ELSE chainLines(guardChain(jobCondId(entry.name), entry.job.if, "  "))

generateJobConditionNodes(jobs) ==
    inOrder([i \in 1..Len(jobs) |-> jobConditionLines(jobs[i])])

RunMax == 60

RunKeep == 57

\* step.run.split('\n')[0]
RECURSIVE firstLineOf(_)
firstLineOf(text) ==
    IF text = <<>> \/ Head(text) = "\n" THEN <<>>
    ELSE <<Head(text)>> \o firstLineOf(Tail(text))

getStepLabel(step) ==
    IF truthy(step.name) THEN step.name.s
    ELSE IF truthy(step.uses) THEN step.uses.s
    ELSE IF truthy(step.run)
    THEN LET firstLine == trim(firstLineOf(step.run.s))
         IN  IF Len(firstLine) > RunMax
             THEN substring(firstLine, 0, RunKeep) \o <<".", ".", ".">>
             ELSE firstLine
    ELSE <<"(", "u", "n", "n", "a", "m", "e", "d", " ", "s", "t", "e", "p", ")">>

stepNodeId(jobName, i) == sanitizeId(jobName) \o <<"_", "s">> \o numberToString(i)

\* The edges from a chain's target edges into the element it guards.
targetEdgeLines(c, indent, target) ==
    [j \in 1..Len(c.toTargetEdges) |->
        edgeLine(indent, c.toTargetEdges[j].fromId, "-->", c.toTargetEdges[j].label,
                 target)]

\* stepChains[i]: null for an unguarded step, else its compiled chain; reading
\* step.if of a Null step throws.
stepChain(jobName, steps, i) ==
    IF steps[i].t # "obj" THEN TypeError
    ELSE IF ~truthy(steps[i].if) THEN Null
    ELSE guardChain(<<"c", "o", "n", "d", "_">> \o stepNodeId(jobName, i - 1), steps[i].if, "    ")

isChain(c) == "entryId" \in DOMAIN c

\* The node lines of step i (1-based here, i - 1 in the identifiers).
stepNodeLines(jobName, steps, chains, i) ==
    (IF isChain(chains[i]) THEN chains[i].nodeLines \o chains[i].internalEdges ELSE <<>>)
        \o <<nodeLine("    ", stepNodeId(jobName, i - 1), "rect",
                      escapeLabel(getStepLabel(steps[i])))>>

\* stepSkipLines that enters the next step's node even when that step is
\* guarded (line 594 without the test of nextChain).
stepSkipLinesToStepNode(jobName, chains, i) ==
    IF isChain(chains[i]) /\ ~chains[i].isFullyAlways /\ i < Len(chains)
    THEN [j \in 1..Len(chains[i].skipSourceIds) |->
             edgeLine("    ", chains[i].skipSourceIds[j], "-.->", "Skip",
                      stepNodeId(jobName, i))]
    ELSE <<>>

\* The Skip edges of step i: from every exit id to the next step's entry.
stepSkipLines(jobName, chains, i) ==
    IF isChain(chains[i]) /\ ~chains[i].isFullyAlways /\ i < Len(chains)
    THEN LET nextEntry == IF isChain(chains[i + 1]) THEN chains[i + 1].entryId
                          ELSE stepNodeId(jobName, i)
         IN  [j \in 1..Len(chains[i].skipSourceIds) |->
                 edgeLine("    ", chains[i].skipSourceIds[j], "-.->", "Skip", nextEntry)]
    ELSE <<>>

\* The edge lines of step i.
stepEdgeLines(jobName, chains, i) ==
    (IF isChain(chains[i])
     THEN targetEdgeLines(chains[i], "    ", stepNodeId(jobName, i - 1)) ELSE <<>>)
    \o (IF i > 1
        THEN <<edgeLine("    ", stepNodeId(jobName, i - 2), "-->", "",
                        IF isChain(chains[i]) THEN chains[i].entryId
                        ELSE stepNodeId(jobName, i - 1))>>
        ELSE <<>>)
    \o stepSkipLines(jobName, chains, i)

\* ` (${runs-on})`, or nothing.
runsOnText(job) ==
    IF ~truthy(job.runsOn) THEN <<>>
    ELSE <<" ", "(">> \o (IF job.runsOn.t = "arr" THEN joinComma(job.runsOn.items)
                   ELSE job.runsOn.s) \o <<")">>

\* Lines 553-599: the node lines of the steps, then their edge lines.
stepLines(jobName, steps, chains) ==
    IF \E i \in 1..Len(steps) : IsThrown(chains[i]) THEN Throws
    ELSE Lines(flatten([i \in 1..Len(steps) |-> stepNodeLines(jobName, steps, chains, i)])
               \o flatten([i \in 1..Len(steps) |-> stepEdgeLines(jobName, chains, i)]))

\* Lines 542-600: the inside of the subgraph of a job with these steps.
jobBody(jobName, jobId, steps) ==
    IF Len(steps) = 0
    THEN Lines(<<nodeLine("    ", jobId \o <<"_", "e", "m", "p", "t", "y">>, "rect",
                          <<"(", "n", "o", " ", "s", "t", "e", "p", "s", ")">>)>>)
    ELSE stepLines(jobName, steps, [i \in 1..Len(steps) |-> stepChain(jobName, steps, i)])

\* Lines 533-603, for the job's node id.
jobLines(jobName, job, jobId) ==
    inOrder(<<Lines(<<subgraphLine("  ", jobId,
                                   escapeLabel(IF truthy(job.name) THEN job.name.s
                                               ELSE jobName) \o runsOnText(job))>>),
              IF truthy(job.uses)
              THEN Lines(<<nodeLine("    ", jobId \o <<"_", "u", "s", "e", "s">>, "rect",
                                    <<"u", "s", "e", "s", ":", " ">>
                                        \o escapeLabel(job.uses.s))>>)
              ELSE jobBody(jobName, jobId,
                           IF truthy(job.steps) THEN job.steps.items ELSE <<>>),
              Lines(<<endLine("  ")>>)>>)

generateJob(jobName, job) == jobLines(jobName, job, jobNodeId(jobName))

(***************************************************************************)
(* Job order and job wiring.                                               *)
(***************************************************************************)
\* visit(name) of topologicalSort, on the state [visited, result] it updates.
RECURSIVE visit(_, _, _)
RECURSIVE visitAll(_, _, _)
\* visit with line 684's push moved before the loop over the dependencies.
visitPreOrder(jobs, name, st) ==
    IF name \in st.visited THEN st
    ELSE LET job == jobAt(jobs, name)
             entered == [st EXCEPT !.visited = @ \cup {name}, !.result = Append(@, name)]
             deps == IF job.t = "obj" /\ truthy(job.needs) THEN needsList(job) ELSE <<>>
         IN  visitAll(jobs, SelectSeq(deps, LAMBDA dep : truthy(jobAt(jobs, dep))), entered)

visit(jobs, name, st) ==
    IF name \in st.visited THEN st
    ELSE LET job == jobAt(jobs, name)
             entered == [st EXCEPT !.visited = @ \cup {name}]
             deps == IF job.t = "obj" /\ truthy(job.needs) THEN needsList(job) ELSE <<>>
             after == visitAll(jobs, SelectSeq(deps, LAMBDA dep : truthy(jobAt(jobs, dep))),
                               entered)
         IN  [after EXCEPT !.result = Append(@, name)]

\* The loop `for (const name of names) visit(name)`.
visitAll(jobs, names, st) ==
    IF names = <<>> THEN st ELSE visitAll(jobs, Tail(names), visit(jobs, Head(names), st))

topologicalSort(jobs) ==
    visitAll(jobs, [i \in 1..Len(jobs) |-> jobs[i].name],
             [visited |-> {}, result |-> <<>>]).result

\* isRootJob without the empty-list test of line 625.
isRootJobAbsentOnly(job) == ~truthy(job.needs)

isRootJob(job) ==
    ~truthy(job.needs) \/ (job.needs.t = "arr" /\ Len(job.needs.items) = 0)

getRootJobs(jobs) ==
    LET roots == SelectSeq(jobs, LAMBDA e : isRootJob(e.job))
    IN  [i \in 1..Len(roots) |-> roots[i].name]

\* The edges from the trigger node to one root job (lines 49-65).
\* Lines 54-62: the trigger's edge into the chain, the chain's edges into the job.
guardedRootLines(rootJob, c) ==
    IF IsThrown(c) THEN Throws
    ELSE Lines(<<edgeLine("  ", TriggersId, "-->", "", c.entryId)>>
               \o targetEdgeLines(c, "  ", jobNodeId(rootJob)))

\* rootJobLinesOf that compiles the guard under the identifier of a step
\* guard, `cond_<name>` (line 52 without `job_`).
rootJobLinesOfOtherId(rootJob, job) ==
    IF job.t = "obj" /\ truthy(job.if)
    THEN guardedRootLines(rootJob, guardChain(<<"c", "o", "n", "d", "_">> \o sanitizeId(rootJob),
                                              job.if, "  "))
    ELSE Lines(<<edgeLine("  ", TriggersId, "-->", "", jobNodeId(rootJob))>>)

rootJobLinesOf(rootJob, job) ==
    IF job.t = "obj" /\ truthy(job.if)
    THEN guardedRootLines(rootJob, guardChain(jobCondId(rootJob), job.if, "  "))
    ELSE Lines(<<edgeLine("  ", TriggersId, "-->", "", jobNodeId(rootJob))>>)

rootJobLines(jobs, rootJob) == rootJobLinesOf(rootJob, jobAt(jobs, rootJob))

\* Lines 47-66; reading job.needs of a job key without a value throws.
rootEdgesOf(jobs, rootJobs) ==
    inOrder([i \in 1..Len(rootJobs) |-> rootJobLines(jobs, rootJobs[i])])

rootEdges(jobs) ==
    IF \E i \in 1..Len(jobs) : jobs[i].job.t # "obj" THEN Throws
    ELSE rootEdgesOf(jobs, getRootJobs(jobs))

\* guardedDependencyLines without the already-wired set of lines 645 and 653.
guardedDependencyLinesEveryTime(jobName, dep, first, c) ==
    IF IsThrown(c) THEN Throws
    ELSE Lines(<<edgeLine("  ", jobNodeId(dep), "-->", "", c.entryId)>>
               \o targetEdgeLines(c, "  ", jobNodeId(jobName)))

\* The lines generateJobEdges pushes for dependency number d of one job; the
\* chain's target edges are pushed with the job's first dependency only
\* (condEdgeAdded).
guardedDependencyLines(jobName, dep, first, c) ==
    IF IsThrown(c) THEN Throws
    ELSE Lines(<<edgeLine("  ", jobNodeId(dep), "-->", "", c.entryId)>>
               \o (IF first THEN targetEdgeLines(c, "  ", jobNodeId(jobName)) ELSE <<>>))

dependencyLines(jobName, job, needs, d) ==
    IF truthy(job.if)
    THEN guardedDependencyLines(jobName, needs[d], d = 1,
                                guardChain(jobCondId(jobName), job.if, "  "))
    ELSE Lines(<<edgeLine("  ", jobNodeId(needs[d]), "-->", "", jobNodeId(jobName))>>)

jobEdgeLines(entry) ==
    IF entry.job.t # "obj" THEN Throws
    ELSE IF ~truthy(entry.job.needs) THEN Lines(<<>>)
    ELSE LET needs == needsList(entry.job)
         IN  inOrder([d \in 1..Len(needs) |->
                         dependencyLines(entry.name, entry.job, needs, d)])

generateJobEdges(jobs) == inOrder([i \in 1..Len(jobs) |-> jobEdgeLines(jobs[i])])

classDefLine(name, fill, stroke, color, dashed) ==
    [k |-> "classDef", name |-> name, fill |-> fill, stroke |-> stroke,
     color |-> color, dashed |-> dashed]

generateConditionClassDefs ==
    flatten([i \in 1..Len(CONDITION_STYLES) |->
        <<classDefLine(CONDITION_STYLES[i].className, CONDITION_STYLES[i].fill,
                       CONDITION_STYLES[i].stroke, "#fff", FALSE),
          classDefLine(CONDITION_STYLES[i].className \o "Neg", "#fff",
                       CONDITION_STYLES[i].stroke, CONDITION_STYLES[i].fill, TRUE)>>])
    \o <<classDefLine(CUSTOM_CONDITION_STYLE.className, CUSTOM_CONDITION_STYLE.fill,
                      CUSTOM_CONDITION_STYLE.stroke, "#fff", FALSE)>>

(***************************************************************************)
(* convertYamlToMermaid.  The argument is the outcome of yaml.load on the  *)
(* input text: [t |-> "throws", message], Null, a scalar, or an object     *)
(* [t |-> "obj", on, jobs] whose jobs is Undefined, Null or                *)
(* [t |-> "map", entries].  mermaidCode is the sequence of the lines that  *)
(* the code joins with '\n': '' is the empty sequence.  The messages stand *)
(* for the Japanese texts of the source.                                   *)
(***************************************************************************)
HeaderLine == [k |-> "header"]

ParseFailedMessage == "YAML parse failed. Enter valid YAML."

JobsMissingMessage == "jobs section not found. Enter a GitHub Actions workflow YAML."

ParseErrorPrefix == "Parse error: "

Failure(message) ==
    [returned |-> TRUE, mermaidCode |-> <<>>, error |-> [t |-> "str", s |-> message]]

Success(lines) == [returned |-> TRUE, mermaidCode |-> lines, error |-> Undefined]

\* The job subgraphs, in topological order (lines 36-43).
subgraphOf(jobName, job) ==
    IF truthy(job) THEN generateJob(jobName, job) ELSE Lines(<<>>)

jobSubgraphsOf(jobs, jobNames) ==
    inOrder([i \in 1..Len(jobNames) |-> subgraphOf(jobNames[i], jobAt(jobs, jobNames[i]))])

jobSubgraphs(jobs) == jobSubgraphsOf(jobs, topologicalSort(jobs))

\* emitJobs with the call of line 33 moved after the job loop of lines 38-43.
emitJobsGuardsLast(on, jobs) ==
    inOrder(<<Lines(<<HeaderLine>>),
              IF truthy(on) THEN generateTriggers(on) ELSE Lines(<<>>),
              jobSubgraphs(jobs),
              generateJobConditionNodes(jobs),
              IF truthy(on) THEN rootEdges(jobs) ELSE Lines(<<>>),
              generateJobEdges(jobs),
              Lines(generateConditionClassDefs)>>)

\* Lines 25-73: everything emitted after validation, in order.
emitJobs(on, jobs) ==
    inOrder(<<Lines(<<HeaderLine>>),
              IF truthy(on) THEN generateTriggers(on) ELSE Lines(<<>>),
              generateJobConditionNodes(jobs),
              jobSubgraphs(jobs),
              IF truthy(on) THEN rootEdges(jobs) ELSE Lines(<<>>),
              generateJobEdges(jobs),
              Lines(generateConditionClassDefs)>>)

emitAll(workflow) == emitJobs(workflow.on, workflow.jobs.entries)

\* typeof workflow === 'object', for a value that is not null.
isObject(v) == v.t \in {"obj", "arr"}

\* workflow.jobs; a list has no such property.
jobsOf(workflow) == IF workflow.t = "obj" THEN workflow.jobs ELSE Undefined

\* resultOf without the try/catch of lines 14 and 76-79.
resultOfUncaught(emitted) ==
    IF emitted.threw THEN [returned |-> FALSE, mermaidCode |-> emitted.lines, error |-> Undefined]
    ELSE Success(emitted.lines)

\* Lines 75-79: the lines joined, or the message of the exception caught.
resultOf(emitted) ==
    IF emitted.threw THEN Failure(ParseErrorPrefix \o "TypeError") ELSE Success(emitted.lines)

\* thrownResult that reports the exception's bare message, without the prefix
\* of line 78.
thrownResultBare(message) == Failure(message)

\* Lines 76-79, for an exception of the deserializer.
thrownResult(message) == Failure(ParseErrorPrefix \o message)

\* Lines 17-75, for the deserialized value and its job section.
validated(loaded, jobs) ==
    IF ~truthy(loaded) \/ ~isObject(loaded) THEN Failure(ParseFailedMessage)
    ELSE IF ~truthy(jobs) \/ Len(jobs.entries) = 0 THEN Failure(JobsMissingMessage)
    ELSE resultOf(emitAll(loaded))

convertYamlToMermaid(loaded) ==
    IF loaded.t = "throws" THEN thrownResult(loaded.message)
    ELSE validated(loaded, jobsOf(loaded))

(***************************************************************************)
(* Conversion as a state machine: the editor hands a text to               *)
(* convertYamlToMermaid; yamlDoc is what yaml.load makes of it.             *)
(***************************************************************************)
NameA == <<"a">>

NameB == <<"b">>

NameC == <<"c">>

Job(needs, guard, steps) ==
    [t |-> "obj", name |-> Undefined, runsOn |-> Undefined, needs |-> needs,
     if |-> guard, steps |-> steps, uses |-> Undefined]

Step(name, guard) ==
    [t |-> "obj", name |-> name, uses |-> Undefined, run |-> Undefined, if |-> guard]

Workflow(on, jobs) == [t |-> "obj", on |-> on, jobs |-> jobs]

JobMap(entries) == [t |-> "map", entries |-> entries]

TriggerConfig(branches) ==
    [t |-> "obj", branches |-> branches, tags |-> Undefined, paths |-> Undefined,
     types |-> Undefined]

OnMap(name, config) == [t |-> "map", entries |-> <<[name |-> name, config |-> config]>>]

PushTrigger == Str(<<"p", "u", "s", "h">>)

\* What yaml.load makes of a text that is no workflow object.
LoadFailures ==
    {[t |-> "throws", message |-> m] :
         m \in {"bad indentation of a mapping entry", "", ParseFailedMessage,
                JobsMissingMessage}}
    \cup {Null, Undefined, Str(<<"h", "e", "l", "l", "o">>), Str(<<>>), Bool(TRUE), [t |-> "num"],
          Arr(<<>>), Arr(<<<<"j", "o", "b", "s">>>>)}

\* Workflow objects with no job section, or an empty one.
JoblessWorkflows ==
    {Workflow(on, jobs) : on \in {Undefined, PushTrigger},
                          jobs \in {Undefined, Null, JobMap(<<>>)}}

OnValues ==
    {Undefined, PushTrigger, Str(<<>>), Arr(<<<<"p", "u", "s", "h">>, <<"p", "u", "l", "l", "_", "r", "e", "q", "u", "e", "s", "t">>>>), Bool(TRUE),
     OnMap(<<"p", "u", "s", "h">>, Null),
     OnMap(<<"p", "u", "s", "h">>, TriggerConfig(Arr(<<<<"m", "a", "i", "n">>, <<"d", "e", "v">>>>))),
     OnMap(<<"p", "u", "s", "h">>, TriggerConfig(Str(<<"m", "a", "i", "n">>))),
     OnMap(<<"s", "c", "h", "e", "d", "u", "l", "e">>, Arr(<<<<"0", " ", "0", " ", "*", " ", "*", " ", "*">>>>))}

\* Guards of every type a YAML `if:` can have.
SampleGuards ==
    {Undefined, Bool(TRUE), Bool(FALSE), Str(AlwaysText), Str(<<"x">>), Str(<<" ">>),
     Str(ReadmeOr), Str(<<"(", "x", " ", "&", "&", " ">>), Str(<<"|", "|", " ", "x", ")">>),
     Str(<<"(", "x", "|", "|">> \o AlwaysText \o <<")", "&", "&">> \o AlwaysText)}

MaxSteps == 2

StepValues == {Null} \cup {Step(Str(<<"r", "u", "n">>), g) : g \in SampleGuards}

StepLists ==
    {Undefined} \cup {Arr(ss) : ss \in UNION {[1..n -> StepValues] : n \in 0..MaxSteps}}

\* One job, declared with this trigger, guard and steps.
SingleJob(on, guard, steps) ==
    Workflow(on, JobMap(<<[name |-> NameA, job |-> Job(Undefined, guard, steps)]>>))

\* Two jobs, each of which may be a key with no value or depend on the other.
FirstJobs == {Null, Job(Undefined, Undefined, Undefined), Job(Str(NameB), Str(<<"x">>), Undefined)}

SecondJobs ==
    {Null, Job(Undefined, Str(AlwaysText), Undefined), Job(Arr(<<NameA>>), Bool(TRUE), Undefined)}

\* Three jobs for the wiring of triggers and dependencies: a has no
\* dependency, b has none or needs a, c needs a or both, in either order.
RootNeeds == {Undefined, Arr(<<>>)}

WiredGuards == {Undefined, Str(AlwaysText), Str(ReadmeOr), Str(ReadmeMixed)}

WiredJobsA == {Job(n, g, Undefined) : n \in RootNeeds, g \in {Undefined, Str(ReadmeOr)}}

WiredJobsB ==
    {Job(n, g, Undefined) : n \in {Undefined, Str(NameA), Arr(<<NameA>>)},
                            g \in {Undefined, Str(<<"x">>)}}

WiredJobsC ==
    {Job(n, g, Undefined) : n \in {Str(NameA), Arr(<<NameA, NameB>>), Arr(<<NameB, NameA>>)},
                            g \in WiredGuards}

\* The job mapping with the three jobs declared in this order.
WiredJobMap(ja, jb, jc, reversed) ==
    IF reversed
    THEN JobMap(<<[name |-> NameC, job |-> jc], [name |-> NameB, job |-> jb],
                  [name |-> NameA, job |-> ja]>>)
    ELSE JobMap(<<[name |-> NameA, job |-> ja], [name |-> NameB, job |-> jb],
                  [name |-> NameC, job |-> jc]>>)

\* A name no job declares and the mapping inherits.
InheritedName == <<"t", "o", "S", "t", "r", "i", "n", "g">>

\* The needs of a job that names jobs nobody declares.
UndeclaredNeeds ==
    {Str(NameB), Str(InheritedName), Arr(<<NameB, NameC>>), Arr(<<InheritedName, NameB>>)}

ConvertInit ==
    /\ pc = "ready"
    /\ \/ yamlDoc \in LoadFailures \cup JoblessWorkflows
       \/ \E on \in OnValues, g \in {Undefined, Str(<<"x">>)} :
              yamlDoc = SingleJob(on, g, Undefined)
       \/ \E on \in {Undefined, PushTrigger}, g \in SampleGuards \cup {Null},
             steps \in StepLists :
              yamlDoc = SingleJob(on, g, steps)
       \/ \E g \in GuardTexts : yamlDoc = SingleJob(PushTrigger, Str(g), Undefined)
       \/ \E ja \in FirstJobs, jb \in SecondJobs :
              yamlDoc = Workflow(PushTrigger, JobMap(<<[name |-> NameA, job |-> ja],
                                                       [name |-> NameB, job |-> jb]>>))
       \/ \E on \in {Undefined, PushTrigger}, reversed \in BOOLEAN :
              \E ja \in WiredJobsA, jb \in WiredJobsB, jc \in WiredJobsC :
                  yamlDoc = Workflow(on, WiredJobMap(ja, jb, jc, reversed))
       \/ \E n \in UndeclaredNeeds, g \in {Undefined, Str(<<"x">>)} :
              yamlDoc = Workflow(PushTrigger,
                                 JobMap(<<[name |-> NameA, job |-> Job(n, g, Undefined)],
                                          [name |-> NameC,
                                           job |-> Job(Str(NameA), Undefined, Undefined)]>>))
    /\ result = NoValue
    /\ expr = <<>>
    /\ baseId = <<>>
    /\ ast = NoValue
    /\ chain = NoValue
    /\ history = <<>>

ConvertYamlToMermaid ==
    /\ pc = "ready"
    /\ result' = convertYamlToMermaid(yamlDoc)
    /\ pc' = "done"
    /\ UNCHANGED <<yamlDoc, expr, baseId, ast, chain, history>>

ConvertNext == ConvertYamlToMermaid

SpecConvert == ConvertInit /\ [][ConvertNext]_vars

(***************************************************************************)
(* Job ordering as a state machine: topologicalSort is applied to a job    *)
(* mapping that passed validation and generateJobConditionNodes.           *)
(***************************************************************************)
JobNames == {NameA, NameB, NameC}

MaxJobs == 3

MaxNeeds == 2

\* Lists of distinct job names.
NameLists(n) ==
    {ns \in UNION {[1..k -> JobNames] : k \in 0..n} :
         \A i, j \in 1..Len(ns) : i # j => ns[i] # ns[j]}

NeedsValues ==
    {Undefined, Str(InheritedName)} \cup {Str(n) : n \in JobNames}
        \cup {Arr(ns) : ns \in NameLists(MaxNeeds)}

\* The job mapping that declares names in this order with these needs.
TopoJobMap(names, needs) ==
    [i \in 1..Len(names) |-> [name |-> names[i], job |-> Job(needs[i], Undefined, Undefined)]]

TopoInit ==
    /\ pc = "ready"
    /\ \E names \in NameLists(MaxJobs) \ {<<>>} :
           \E needs \in [1..Len(names) -> NeedsValues] :
               yamlDoc = Workflow(Undefined, JobMap(TopoJobMap(names, needs)))
    /\ result = NoValue
    /\ expr = <<>>
    /\ baseId = <<>>
    /\ ast = NoValue
    /\ chain = NoValue
    /\ history = <<>>

TopologicalSort ==
    /\ pc = "ready"
    /\ result' = [jobNames |-> topologicalSort(yamlDoc.jobs.entries)]
    /\ pc' = "sorted"
    /\ UNCHANGED <<yamlDoc, expr, baseId, ast, chain, history>>

TopoNext == TopologicalSort

SpecTopo == TopoInit /\ [][TopoNext]_vars

(***************************************************************************)
(* Properties of the conversion result.                                    *)
(***************************************************************************)
(***************************************************************************)
(* Repeated translation as a state machine: the editor translates its text *)
(* again after every change (App.tsx, useMemo over yamlInput); history     *)
(* holds the calls made so far, each with its argument and its result.     *)
(***************************************************************************)
MaxCalls == 3

StepName == Str(<<"r", "u", "n">>)

\* Descriptions that use every local of the translation: the part counter
\* (compound guards of jobs and steps), the visited set (dependencies) and
\* the already-wired set (a guarded job with two dependencies), and
\* descriptions that end in an error.
RepeatDocs ==
    {[t |-> "throws", message |-> "bad indentation of a mapping entry"],
     Workflow(PushTrigger, Null),
     Workflow(PushTrigger, JobMap(<<[name |-> NameA, job |-> Null]>>)),
     SingleJob(Undefined, Str(<<"x">>), Undefined),
     SingleJob(PushTrigger, Str(<<"(", "x", "|", "|", "y", ")", "&", "&", "z">>),
               Arr(<<Step(StepName, Str(<<"x", "|", "|", "y">>)), Step(StepName, Undefined)>>)),
     Workflow(PushTrigger,
              WiredJobMap(Job(Undefined, Str(<<"x", "|", "|", "y">>), Undefined),
                          Job(Str(NameA), Undefined, Undefined),
                          Job(Arr(<<NameA, NameB>>), Str(<<"x", "&", "&", "y">>), Undefined),
                          TRUE))}

RepeatInit ==
    /\ pc = "idle"
    /\ history = <<>>
    /\ yamlDoc = NoValue
    /\ result = NoValue
    /\ expr = <<>>
    /\ baseId = <<>>
    /\ ast = NoValue
    /\ chain = NoValue

\* One more call of convertYamlToMermaid, on any description.
ConvertAgain ==
    /\ pc = "idle"
    /\ Len(history) < MaxCalls
    /\ \E doc \in RepeatDocs :
           /\ yamlDoc' = doc
           /\ result' = convertYamlToMermaid(doc)
           /\ history' = Append(history, [yamlDoc |-> doc,
                                          result |-> convertYamlToMermaid(doc)])
    /\ UNCHANGED <<pc, expr, baseId, ast, chain>>

RepeatNext == ConvertAgain

SpecRepeat == RepeatInit /\ [][RepeatNext]_vars

(***************************************************************************)
(* sanitizeId as a state machine: it is applied to a job name or a trigger *)
(* name and, for the idempotence, to its own output.  A name is a sequence *)
(* of UTF-16 code units, the unit the pattern of line 84 matches; a unit   *)
(* outside ASCII is written by its code, "u3042".                          *)
(***************************************************************************)
MaxName == 3

\* Letters of both cases, a digit, the underscore, punctuation, a space, a
\* unit of the Basic Multilingual Plane and the two units of a surrogate pair.
NameUnits == {"a", "Z", "7", "_", "-", ".", " ", "u3042", "uD83D", "uDE00"}

Names == UNION {[1..n -> NameUnits] : n \in 0..MaxName}

SanitizeInit ==
    /\ pc = "ready"
    /\ expr \in Names
    /\ result = NoValue
    /\ baseId = <<>>
    /\ ast = NoValue
    /\ chain = NoValue
    /\ yamlDoc = NoValue
    /\ history = <<>>

SanitizeId ==
    /\ pc = "ready"
    /\ result' = [id |-> sanitizeId(expr), again |-> sanitizeId(sanitizeId(expr))]
    /\ pc' = "sanitized"
    /\ UNCHANGED <<expr, baseId, ast, chain, yamlDoc, history>>

SanitizeNext == SanitizeId

SpecSanitize == SanitizeInit /\ [][SanitizeNext]_vars

(***************************************************************************)
(* Conversion of pipelines whose job names resemble the identifiers the    *)
(* translation derives: two jobs with distinct identifier-safe names, each *)
(* with or without a guard, steps or a reused workflow.                    *)
(***************************************************************************)
\* Job names that sanitizeId leaves as they are.
IdNames ==
    {NameA, <<"a", "_", "p", "0">>, <<"a", "_", "e", "m", "p", "t", "y">>,
     <<"a", "_", "u", "s", "e", "s">>, <<"j", "o", "b">>, <<"s", "0">>,
     <<"j", "o", "b", "_", "a">>, <<"a", "_", "s", "0">>}

\* A job without steps, a guarded one, one that reuses a workflow, and one
\* with a compound guard and a guarded step.
IdJobs ==
    {Job(Undefined, Undefined, Undefined),
     Job(Undefined, Str(<<"x">>), Undefined),
     [Job(Undefined, Undefined, Undefined) EXCEPT !.uses = Str(<<"w">>)],
     Job(Undefined, Str(<<"x", "|", "|", "y">>),
         Arr(<<Step(Str(<<"r", "u", "n">>), Str(<<"x">>))>>))}

IdsInit ==
    /\ pc = "ready"
    /\ \E on \in {Undefined, PushTrigger}, n1 \in IdNames, n2 \in IdNames \ {NameA} :
           \E j1 \in IdJobs, j2 \in IdJobs :
               /\ n1 # n2
               /\ yamlDoc = Workflow(on, JobMap(<<[name |-> n1, job |-> j1],
                                                  [name |-> n2, job |-> j2]>>))
    /\ result = NoValue
    /\ expr = <<>>
    /\ baseId = <<>>
    /\ ast = NoValue
    /\ chain = NoValue
    /\ history = <<>>

SpecIds == IdsInit /\ [][ConvertNext]_vars

\* The loaded value is an object: a mapping or a list, not null.
isObjectDoc == yamlDoc.t \in {"obj", "arr"}

deserializerThrew == yamlDoc.t = "throws"

\* The job section is absent or has no entry.
jobsMissing ==
    \/ yamlDoc.t = "arr"
    \/ yamlDoc.jobs \in {Undefined, Null}
    \/ yamlDoc.jobs.t = "map" /\ yamlDoc.jobs.entries = <<>>

isErrorResult == result.mermaidCode = <<>> /\ result.error.t = "str" /\ result.error.s # ""

isDiagramResult == Len(result.mermaidCode) > 0 /\ result.error = Undefined

\* C1: for every input, convertYamlToMermaid returns normally, with either a
\* non-empty diagram and no error or an empty diagram and an error message,
\* never both and never a diagram together with an error; this includes the
\* inputs on which the deserializer or an emission step raises.
C1_ResultShape ==
    pc = "done" =>
        /\ result.returned
        /\ isErrorResult \/ isDiagramResult
        /\ ~(isErrorResult /\ isDiagramResult)
        /\ result.error # Undefined => result.mermaidCode = <<>>

\* An emission step raised (a job key without a value) and the call still
\* returned an error result.
C1_Witness ==
    /\ pc = "done"
    /\ isObjectDoc /\ ~jobsMissing
    /\ \E i \in 1..Len(yamlDoc.jobs.entries) : yamlDoc.jobs.entries[i].job = Null
    /\ result.returned /\ isErrorResult

\* C2: validation is ordered: a null or non-object document gives the
\* parse-failure message, an object without job entries gives the
\* jobs-missing message, the two differ from each other and from the message
\* of a deserializer exception, and nothing is emitted in any of the three.
C2_ValidationOrder ==
    /\ ParseFailedMessage # JobsMissingMessage
    /\ pc = "done" =>
        /\ (~deserializerThrew /\ ~isObjectDoc) =>
               result.error = Str(ParseFailedMessage) /\ result.mermaidCode = <<>>
        /\ (~deserializerThrew /\ isObjectDoc /\ jobsMissing) =>
               result.error = Str(JobsMissingMessage) /\ result.mermaidCode = <<>>
        /\ deserializerThrew =>
               /\ result.error.t = "str"
               /\ result.error.s \notin {ParseFailedMessage, JobsMissingMessage}
               /\ result.mermaidCode = <<>>

\* The deserializer raised with the very text of the parse-failure message.
C2_Witness ==
    /\ pc = "done"
    /\ deserializerThrew /\ yamlDoc.message = ParseFailedMessage
    /\ result.error.t = "str"

\* A guard that is absent or a string.
isStringGuard(guard) == guard = Undefined \/ guard.t = "str"

\* A step record whose guard is absent or a string.
isValidStep(step) == step.t = "obj" /\ isStringGuard(step.if)

\* A job record whose guard and whose steps' guards are absent or strings.
isValidJob(job) ==
    /\ job.t = "obj"
    /\ isStringGuard(job.if)
    /\ \/ job.steps = Undefined
       \/ /\ job.steps.t = "arr"
          /\ \A i \in 1..Len(job.steps.items) : isValidStep(job.steps.items[i])

\* A trigger section of a form the data model allows: absent, a name, a list
\* of names, or a mapping whose filters are lists.
isValidOn(on) ==
    \/ on = Undefined
    \/ on.t \in {"str", "arr"}
    \/ /\ on.t = "map"
       /\ \A i \in 1..Len(on.entries) :
              LET config == on.entries[i].config
              IN  \/ config = Null
                  \/ config.t = "arr"
                  \/ /\ config.t = "obj"
                     /\ \A f \in {config.branches, config.tags, config.paths, config.types} :
                            f = Undefined \/ f.t = "arr"

\* The loaded document is a structurally valid pipeline.
isValidPipeline ==
    /\ yamlDoc.t = "obj"
    /\ isValidOn(yamlDoc.on)
    /\ ~jobsMissing
    /\ \A i \in 1..Len(yamlDoc.jobs.entries) : isValidJob(yamlDoc.jobs.entries[i].job)

\* The guard strings of the loaded pipeline, of its jobs and of their steps.
guardStrings ==
    LET jobs == yamlDoc.jobs.entries
        stepsOf(job) == IF job.steps = Undefined THEN <<>> ELSE job.steps.items
    IN  {jobs[i].job.if.s : i \in {k \in 1..Len(jobs) : jobs[k].job.if # Undefined}}
        \cup UNION {{stepsOf(jobs[i].job)[j].if.s :
                         j \in {k \in 1..Len(stepsOf(jobs[i].job)) :
                                    stepsOf(jobs[i].job)[k].if # Undefined}} :
                    i \in 1..Len(jobs)}

\* C3: a structurally valid pipeline whose jobs or steps carry any guard
\* string (balanced or not, with stray operators, with empty parentheses)
\* yields a diagram and never an error result: the parser returned an AST for
\* every guard without raising.
C3_GuardsNeverFail ==
    (pc = "done" /\ isValidPipeline) => result.returned /\ isDiagramResult

\* A pipeline whose job guard has a stray operator and an unbalanced
\* parenthesis was converted to a diagram.
C3_Witness ==
    /\ pc = "done" /\ isValidPipeline
    /\ \E g \in guardStrings :
           /\ Len(SelectSeq(g, LAMBDA c : c = "(")) # Len(SelectSeq(g, LAMBDA c : c = ")"))
           /\ Len(g) >= 2 /\ SubSeq(g, 1, 2) \in {AndOp, OrOp}
    /\ isDiagramResult

(***************************************************************************)
(* Properties of the job order.                                            *)
(***************************************************************************)
declaredNames == {yamlDoc.jobs.entries[i].name : i \in 1..Len(yamlDoc.jobs.entries)}

\* The declared jobs that job `name` names in its needs, single or list.
declaredDeps(name) ==
    LET needs == jobAt(yamlDoc.jobs.entries, name).needs
        named == IF needs = Undefined THEN {}
                 ELSE IF needs.t = "str" THEN {needs.s}
                 ELSE {needs.items[i] : i \in 1..Len(needs.items)}
    IN  named \cap declaredNames

\* The jobs reachable from `from` along at most `steps` needs.
RECURSIVE reachable(_, _)
reachable(from, steps) ==
    IF steps = 0 THEN from
    ELSE reachable(from \cup UNION {declaredDeps(n) : n \in from}, steps - 1)

\* No job depends on itself, directly or through other jobs.
needsAcyclic ==
    \A n \in declaredNames :
        n \notin reachable(declaredDeps(n), Cardinality(declaredNames))

\* The position of a job in the returned order.
positionOf(name) == CHOOSE i \in 1..Len(result.jobNames) : result.jobNames[i] = name

\* C4: when the needs relation is acyclic, the order topologicalSort returns
\* holds every declared job once and never places a job before a declared
\* job it depends on, whatever the declaration order and whether needs is a
\* single name or a list.
C4_TopologicalOrder ==
    (pc = "sorted" /\ needsAcyclic) =>
        /\ \A n \in declaredNames :
               Len(SelectSeq(result.jobNames, LAMBDA name : name = n)) = 1
        /\ \A n \in declaredNames :
               \A dep \in declaredDeps(n) : positionOf(dep) < positionOf(n)

\* Three jobs declared dependents first: one needs a single name, one needs
\* a list of two, and the returned order differs from the declaration order.
C4_Witness ==
    /\ pc = "sorted" /\ needsAcyclic
    /\ Len(yamlDoc.jobs.entries) = 3
    /\ yamlDoc.jobs.entries[1].job.needs = Arr(<<NameC, NameB>>)
    /\ yamlDoc.jobs.entries[2].job.needs = Str(NameC)
    /\ result.jobNames = <<NameC, NameB, NameA>>

(***************************************************************************)
(* Properties of the compiled chain.                                       *)
(***************************************************************************)
\* The ids of the chain's badge nodes of one class.
nodesOfClass(class) ==
    {chain.nodeLines[i].id :
         i \in {k \in 1..Len(chain.nodeLines) : chain.nodeLines[k].class = class}}

\* The internal edges with this label that leave this node.
labelledEdgesFrom(id, label) ==
    {i \in 1..Len(chain.internalEdges) :
         chain.internalEdges[i].from = id /\ chain.internalEdges[i].label = label}

\* The labels of the target edges that leave this node.
targetLabelsFrom(id) ==
    {chain.toTargetEdges[i].label :
         i \in {k \in 1..Len(chain.toTargetEdges) : chain.toTargetEdges[k].fromId = id}}

\* The nodes Skip edges start from (line 595).
exitSet == {chain.skipSourceIds[i] : i \in 1..Len(chain.skipSourceIds)}

\* C6: an unnegated always() badge, at any nesting depth, has no OR edge
\* leaving it, is no source of a Skip edge, and its edges to the target carry
\* no label; a negated always() badge is compiled like any other guard: its
\* target edges are labelled Yes and it has a failure path (an OR edge or
\* membership of the exit set), and alone it gives one Yes edge and an exit
\* set holding its node.
C6_AlwaysHasNoFailurePath ==
    pc = "compiled" =>
        /\ \A id \in nodesOfClass("condAlways") :
               /\ labelledEdgesFrom(id, "OR") = {}
               /\ id \notin exitSet
               /\ targetLabelsFrom(id) \subseteq {""}
        /\ \A id \in nodesOfClass("condAlwaysNeg") :
               /\ targetLabelsFrom(id) \subseteq {"Yes"}
               /\ labelledEdgesFrom(id, "OR") # {} \/ id \in exitSet
               /\ ast.type = "atom" =>
                      /\ chain.toTargetEdges = <<[fromId |-> id, label |-> "Yes"]>>
                      /\ chain.skipSourceIds = <<id>>
                      /\ ~chain.isFullyAlways

\* A chain of three or more badges that holds an always() badge with an
\* unlabelled target edge and a negated always() badge with an OR edge.
C6_Witness ==
    /\ pc = "compiled"
    /\ Len(chain.nodeLines) >= 3
    /\ \E id \in nodesOfClass("condAlways") : targetLabelsFrom(id) = {""}
    /\ \E id \in nodesOfClass("condAlwaysNeg") : labelledEdgesFrom(id, "OR") # {}

(***************************************************************************)
(* Properties of the parser.                                               *)
(***************************************************************************)
\* The parenthesis depth in front of 0-based position i of a text.
depthBefore(s, i) ==
    Len(SelectSeq(SubSeq(s, 1, i), LAMBDA c : c = "("))
        - Len(SelectSeq(SubSeq(s, 1, i), LAMBDA c : c = ")"))

\* The 0-based positions where an operator stands at parenthesis depth 0.
topLevelAt(s, operator) ==
    {i \in 0..(Len(s) - Len(operator)) :
         SubSeq(s, i + 1, i + Len(operator)) = operator /\ depthBefore(s, i) = 0}

hasTopLevelOperator(s) == topLevelAt(s, OrOp) \cup topLevelAt(s, AndOp) # {}

\* The canonical text of the parsed guard, parsed again.
reparsed == parseConditionExpr(printAST(ast, "none"))

\* C7: parsing is idempotent under canonical re-print for the guard texts
\* whose parsed atoms hold no && and no || at parenthesis depth 0: printing
\* the AST (children joined by the node's operator, composite children in
\* parentheses where needed) and parsing the text again gives the same AST.
C7_ReprintIdempotent ==
    (pc = "compiled" /\ \A v \in SeqRange(leafTexts(ast)) : ~hasTopLevelOperator(v))
        => reparsed = ast

\* A parenthesized guard with an operator was parsed to a composite tree
\* whose canonical text differs from the guard, and that text parsed back to
\* the same tree.
C7_Witness ==
    /\ pc = "compiled"
    /\ \A v \in SeqRange(leafTexts(ast)) : ~hasTopLevelOperator(v)
    /\ ast.type \in {"and", "or"}
    /\ \E i \in 1..Len(expr) : expr[i] = "("
    /\ printAST(ast, "none") # trim(expr)
    /\ reparsed = ast

\* C7 as stated, for every guard text: re-printing and parsing again gives
\* the same AST.
C7_EveryText == pc = "compiled" => reparsed = ast

\* The data-model invariant of a tree: a composite node has two children or
\* more, an atom's text is trimmed and not empty.
RECURSIVE satisfiesASTInvariant(_)
satisfiesASTInvariant(a) ==
    IF a.type = "atom" THEN a.value = trim(a.value) /\ a.value # <<>>
    ELSE /\ Len(a.children) >= 2
         /\ \A k \in 1..Len(a.children) : satisfiesASTInvariant(a.children[k])

\* C8: every AST the parser produces for a guard text that reaches it
\* satisfies the data-model invariant: and/or nodes have at least two
\* children and every atom's text is trimmed and non-empty.
C8_ASTInvariant == pc = "compiled" => satisfiesASTInvariant(ast)

\* The text between 0-based positions from and to.
segment(s, from, to) == trim(SubSeq(s, from + 1, to))

\* The operands of the depth-0 occurrences of an operator, left to right.
operandsOf(s, operator) ==
    LET at == topLevelAt(s, operator)
        nth(k) == CHOOSE i \in at : Cardinality({j \in at : j < i}) = k - 1
        n == Cardinality(at)
    IN  [k \in 1..(n + 1) |->
            segment(s, IF k = 1 THEN 0 ELSE nth(k - 1) + Len(operator),
                       IF k = n + 1 THEN Len(s) ELSE nth(k))]

\* The text is one parenthesized group: its first parenthesis closes at its end.
whollyWrapped(s) ==
    /\ Len(s) >= 2 /\ s[1] = "(" /\ s[Len(s)] = ")"
    /\ \A i \in 1..(Len(s) - 1) : depthBefore(s, i) >= 1
    /\ depthBefore(s, Len(s)) = 0

\* The grammar `orExpr := andExpr ('||' andExpr)*`, `andExpr := atom ('&&'
\* atom)*` with parenthesized groups, read off the positions of the operators.
RECURSIVE grammarParse(_)
grammarParse(s0) ==
    LET s == trim(s0)
    IN  IF whollyWrapped(s) /\ trim(SubSeq(s, 2, Len(s) - 1)) # <<>>
        THEN grammarParse(SubSeq(s, 2, Len(s) - 1))
        ELSE IF topLevelAt(s, OrOp) # {}
        THEN [type |-> "or",
              children |-> [k \in 1..Len(operandsOf(s, OrOp)) |->
                                grammarParse(operandsOf(s, OrOp)[k])]]
        ELSE IF topLevelAt(s, AndOp) # {}
        THEN [type |-> "and",
              children |-> [k \in 1..Len(operandsOf(s, AndOp)) |->
                                grammarParse(operandsOf(s, AndOp)[k])]]
        ELSE [type |-> "atom", value |-> s]

\* Every operator at depth 0, at every nesting level, stands between two
\* operands that are not empty.
RECURSIVE operandsPresent(_)
operandsPresent(s0) ==
    LET s == trim(s0)
        operator == IF topLevelAt(s, OrOp) # {} THEN OrOp ELSE AndOp
    IN  IF whollyWrapped(s) /\ trim(SubSeq(s, 2, Len(s) - 1)) # <<>>
        THEN operandsPresent(SubSeq(s, 2, Len(s) - 1))
        ELSE IF ~hasTopLevelOperator(s) THEN TRUE
        ELSE /\ \A i, j \in topLevelAt(s, operator) : i < j => i + Len(operator) <= j
             /\ \A k \in 1..Len(operandsOf(s, operator)) :
                    /\ operandsOf(s, operator)[k] # <<>>
                    /\ operandsPresent(operandsOf(s, operator)[k])

\* C9: when every operator at depth 0 stands between two non-empty operands,
\* && binds tighter than ||: a text with both at depth 0 parses to an `or`
\* node whose children are the && groups, a run of one operator at depth 0
\* becomes one n-ary node with its operands in source order, and an operator
\* inside parentheses does not split the enclosing level.
C9_Precedence ==
    (pc = "compiled" /\ operandsPresent(expr)) =>
        LET s == stripOuterParens(trim(expr))
            ors == topLevelAt(s, OrOp)
            ands == topLevelAt(s, AndOp)
        IN  /\ ast = grammarParse(expr)
            /\ ors # {} =>
                   /\ ast.type = "or"
                   /\ Len(ast.children) = Cardinality(ors) + 1
                   /\ \A k \in 1..Len(ast.children) :
                          /\ ast.children[k] = parseConditionExpr(operandsOf(s, OrOp)[k])
                          /\ topLevelAt(operandsOf(s, OrOp)[k], AndOp) # {}
                                 => ast.children[k].type = "and"
            /\ (ors = {} /\ ands # {}) =>
                   /\ ast.type = "and"
                   /\ Len(ast.children) = Cardinality(ands) + 1
                   /\ \A k \in 1..Len(ast.children) :
                          ast.children[k] = parseConditionExpr(operandsOf(s, AndOp)[k])
            /\ (ors = {} /\ ands = {}) => ast = [type |-> "atom", value |-> s]

\* A text with both operators at depth 0 and an operator inside parentheses
\* was parsed to an `or` node over an && group.
C9_Witness ==
    /\ pc = "compiled" /\ operandsPresent(expr)
    /\ topLevelAt(trim(expr), OrOp) # {} /\ topLevelAt(trim(expr), AndOp) # {}
    /\ ast.type = "or"
    /\ \E k \in 1..Len(ast.children) : ast.children[k].type = "and"

\* C9 as stated, for every text: depth-0 occurrences of || make the root an
\* `or` node, and depth-0 occurrences of && alone make it an `and` node.
C9_EveryText ==
    pc = "compiled" =>
        LET s == stripOuterParens(trim(expr))
        IN  /\ topLevelAt(s, OrOp) # {} => ast.type = "or"
            /\ (topLevelAt(s, OrOp) = {} /\ topLevelAt(s, AndOp) # {}) => ast.type = "and"

\* The leaves through which a subtree is left when it holds, its leaves
\* being numbered offset, offset + 1, ...: of an `or` node those of every
\* child, of an `and` node those of its last child.
RECURSIVE successOutputs(_, _)
successOutputs(a, offset) ==
    IF a.type = "atom" THEN {offset}
    ELSE IF a.type = "or"
    THEN UNION {successOutputs(a.children[k], offset + leavesBefore(a, k)) :
                    k \in 1..Len(a.children)}
    ELSE successOutputs(a.children[Len(a.children)],
                        offset + leavesBefore(a, Len(a.children)))

\* The pairs <<from, to>> of leaves an AND edge has to join: under every
\* `and` node, each success output of a child and the first leaf of the next.
RECURSIVE expectedAndPairs(_, _)
expectedAndPairs(a, offset) ==
    IF a.type = "atom" THEN {}
    ELSE UNION {expectedAndPairs(a.children[k], offset + leavesBefore(a, k)) :
                    k \in 1..Len(a.children)}
         \cup (IF a.type = "and"
               THEN UNION {{<<from, offset + leavesBefore(a, k + 1)>> :
                                from \in successOutputs(a.children[k],
                                                        offset + leavesBefore(a, k))} :
                           k \in 1..(Len(a.children) - 1)}
               ELSE {})

\* The id the compiler gives to leaf number n of a composite guard.
leafId(n) == baseId \o <<"_", "p">> \o numberToString(n)

\* The AND edges of the chain, in the order they are emitted.
andEdgeList == SelectSeq(chain.internalEdges, LAMBDA e : e.label = "AND")

\* The AND edges that enter a node.
andEdgesInto(id) == SelectSeq(andEdgeList, LAMBDA e : e.to = id)

\* C10: the README's mixed guard compiles to exactly three badge nodes, and
\* each of the two success outputs of its OR group is connected to the
\* custom-guard node by its own AND edge; in general, under every `and` node
\* the success outputs of a child enter the next child through one AND edge
\* each, so an OR group sends as many AND edges as it has success outputs.
C10_AndEdgesPerOutput ==
    pc = "compiled" =>
        /\ ast.type # "atom" =>
               /\ {<<e.from, e.to>> : e \in SeqRange(andEdgeList)}
                      = {<<leafId(p[1]), leafId(p[2])>> : p \in expectedAndPairs(ast, 0)}
               /\ Len(andEdgeList) = Cardinality(expectedAndPairs(ast, 0))
               /\ \A e \in SeqRange(andEdgeList) : e.arrow = "-->"
        /\ (ast.type = "and" /\ ast.children[1].type = "or") =>
               Len(andEdgesInto(leafId(leafCount(ast.children[1]))))
                   = Cardinality(successOutputs(ast.children[1], 0))
        /\ expr = ReadmeMixed =>
               /\ [i \in 1..Len(chain.nodeLines) |-> chain.nodeLines[i].class]
                      = <<"condFailure", "condCancelled", "condCustom">>
               /\ [i \in 1..Len(andEdgeList) |-> <<andEdgeList[i].from, andEdgeList[i].to>>]
                      = <<<<leafId(0), leafId(2)>>, <<leafId(1), leafId(2)>>>>

\* The README's mixed guard was compiled: its OR group has two success
\* outputs and two AND edges enter the custom-guard node.
C10_Witness ==
    /\ pc = "compiled" /\ expr = ReadmeMixed
    /\ ast.type = "and" /\ ast.children[1].type = "or"
    /\ Cardinality(successOutputs(ast.children[1], 0)) = 2
    /\ Len(andEdgesInto(leafId(2))) = 2

\* C10 as stated: the README's mixed guard gives three badge nodes and a
\* single AND edge, and an OR group that is an earlier child of an `and` node
\* enters the next child through exactly one AND edge.
C10_SingleAndEdge ==
    pc = "compiled" =>
        /\ expr = ReadmeMixed => Len(chain.nodeLines) = 3 /\ Len(andEdgeList) = 1
        /\ (ast.type = "and" /\ ast.children[1].type = "or") =>
               Len(andEdgesInto(leafId(leafCount(ast.children[1])))) = 1

(***************************************************************************)
(* Properties of the always-true flag.                                     *)
(***************************************************************************)
\* C11: isFullyAlways is true only if the chain can never fail: the guard
\* holds under every truth assignment to its atoms in which an unnegated
\* always() is true, and every walk from the entry ends at the target.  A
\* lone atom has the flag exactly when it is an unnegated always().
C11_AlwaysFlagSound ==
    pc = "compiled" =>
        /\ chain.isFullyAlways =>
               \A val \in Assignments(ast) :
                   /\ evalAST(ast, val, 0)
                   /\ walkFromEntry(chain, ast, val) = "target"
        /\ ast.type = "atom" => (chain.isFullyAlways <=> ast.value = AlwaysText)

\* A compound guard with a leaf that is no unnegated always() was compiled
\* to a chain with the flag set: the leaf stands in an OR group that ends in
\* always().
C11_Witness ==
    /\ pc = "compiled"
    /\ chain.isFullyAlways
    /\ ast.type = "and" /\ ast.children[1].type = "or"
    /\ \E v \in SeqRange(leafTexts(ast)) : v # AlwaysText
    /\ \A val \in Assignments(ast) : evalAST(ast, val, 0)

\* C11 as stated: the flag is set only if every atom leaf of the guard is an
\* unnegated always().
C11_EveryLeafAlways ==
    (pc = "compiled" /\ chain.isFullyAlways) =>
        \A v \in SeqRange(leafTexts(ast)) : v = AlwaysText

(***************************************************************************)
(* Properties of the badges.                                               *)
(***************************************************************************)
RecognizedGuards == {AlwaysText, SuccessText, FailureText, CancelledText}

\* An atom's text without one leading `!`, trimmed.
withoutBang(v) == IF Len(v) > 0 /\ v[1] = "!" THEN trim(Tail(v)) ELSE v

isNegatedText(v) == Len(v) > 0 /\ v[1] = "!"

\* The table entry of a recognized guard.
styleOf(guard) ==
    CONDITION_STYLES[CHOOSE i \in 1..Len(CONDITION_STYLES) : CONDITION_STYLES[i].key = guard]

\* The badge the rendering rule gives to an atom's text.
expectedBadge(v) ==
    IF withoutBang(v) \in RecognizedGuards
    THEN [shape |-> "stadium", icon |-> styleOf(withoutBang(v)).icon,
          text |-> IF isNegatedText(v) THEN <<"N", "O", "T", " ">> \o styleOf(withoutBang(v)).label
                   ELSE styleOf(withoutBang(v)).label,
          class |-> IF isNegatedText(v) THEN styleOf(withoutBang(v)).className \o "Neg"
                    ELSE styleOf(withoutBang(v)).className]
    ELSE [shape |-> "diamond", icon |-> "icon_custom", text |-> escapeLabel(v),
          class |-> "condCustom"]

\* The badge drawn for leaf k of the guard.
drawnBadge(k) ==
    [shape |-> chain.nodeLines[k].shape, icon |-> chain.nodeLines[k].icon,
     text |-> chain.nodeLines[k].text, class |-> chain.nodeLines[k].class]

\* C12: the badge of every atom depends only on whether its text, without
\* one leading `!` and trimmed, is one of always(), success(), failure(),
\* cancelled() (case-sensitively) and on whether it is negated: a recognized
\* guard is a stadium `icon label` of the guard's class, or `icon NOT label`
\* of the class with Neg appended when negated; every other atom is a diamond
\* of class condCustom with the escaped raw text, its `!` included.
C12_BadgeRendering ==
    pc = "compiled" =>
        /\ Len(chain.nodeLines) = leafCount(ast)
        /\ \A k \in 1..Len(chain.nodeLines) : drawnBadge(k) = expectedBadge(leafTexts(ast)[k])

(***************************************************************************)
(* Properties of the job wiring.                                           *)
(***************************************************************************)
\* The lines of the diagram that are equal to this one.
occurrences(line) == Len(SelectSeq(result.mermaidCode, LAMBDA l : l = line))

\* The edges that leave the trigger node, in the order they are emitted.
triggerEdges ==
    SelectSeq(result.mermaidCode, LAMBDA l : l.k = "edge" /\ l.from = TriggersId)

\* needs is absent or an empty list.
hasNoDependency(job) == job.needs = Undefined \/ job.needs = Arr(<<>>)

isGuarded(job) == job.if # Undefined /\ job.if.s # <<>>

\* The compiled chain of a guarded job.
jobChain(entry) == generateConditionChain(jobCondId(entry.name), entry.job.if.s, "  ")

\* The chain's target edges, drawn into the job.
chainIntoJob(entry) ==
    [j \in 1..Len(jobChain(entry).toTargetEdges) |->
        [k |-> "edge", indent |-> "  ", from |-> jobChain(entry).toTargetEdges[j].fromId,
         arrow |-> "-->", label |-> jobChain(entry).toTargetEdges[j].label,
         to |-> jobNodeId(entry.name)]]

plainEdge(from, to) ==
    [k |-> "edge", indent |-> "  ", from |-> from, arrow |-> "-->", label |-> "", to |-> to]

\* The wiring of one job with no dependency below the trigger node.
expectedTriggerWiring(entry) ==
    IF isGuarded(entry.job)
    THEN <<plainEdge(TriggersId, jobChain(entry).entryId)>> \o chainIntoJob(entry)
    ELSE <<plainEdge(TriggersId, jobNodeId(entry.name))>>

\* The declared jobs with no dependency, in declaration order.
independentJobs == SelectSeq(yamlDoc.jobs.entries, LAMBDA e : hasNoDependency(e.job))

\* The lines that follow the last job subgraph.
afterSubgraphs ==
    LET code == result.mermaidCode
        last == CHOOSE i \in 1..Len(code) :
                    /\ code[i].k = "end"
                    /\ \A j \in (i + 1)..Len(code) : code[j].k # "end"
    IN  SubSeq(code, last + 1, Len(code))

isPrefixOf(p, s) == Len(p) <= Len(s) /\ SubSeq(s, 1, Len(p)) = p

\* The wiring below the trigger node, as the claim gives it.
triggerWiringHolds ==
    /\ isPrefixOf(flatten([i \in 1..Len(independentJobs) |->
                               expectedTriggerWiring(independentJobs[i])]),
                  afterSubgraphs)
    /\ Len(triggerEdges) = Len(independentJobs)
    /\ \A i \in 1..Len(yamlDoc.jobs.entries) :
           LET e == yamlDoc.jobs.entries[i]
           IN  ~hasNoDependency(e.job) =>
                   \A t \in SeqRange(triggerEdges) :
                       /\ t.to # jobNodeId(e.name)
                       /\ isGuarded(e.job) => t.to # jobChain(e).entryId

\* C13: in the diagram of a pipeline that has a trigger section, every job
\* with no dependency (needs absent or an empty list) is wired below the
\* trigger node, an unguarded one by a plain edge from triggers to the job, a
\* guarded one by an edge from triggers to the chain's entry followed by the
\* chain's target edges into the job, and a job with a dependency receives no
\* edge from triggers; for a pipeline without a trigger section no edge
\* leaves triggers.
C13_TriggerWiring ==
    (pc = "done" /\ isValidPipeline /\ isDiagramResult) =>
        IF truthy(yamlDoc.on) THEN triggerWiringHolds ELSE triggerEdges = <<>>

\* A pipeline with a trigger section, declared dependents first: a guarded
\* job with an empty needs list is wired through its chain, and a job that
\* needs it is not wired to the trigger node.
C13_Witness ==
    /\ pc = "done" /\ isValidPipeline /\ isDiagramResult
    /\ truthy(yamlDoc.on)
    /\ Len(yamlDoc.jobs.entries) = 3
    /\ yamlDoc.jobs.entries[3].job.needs = Arr(<<>>)
    /\ isGuarded(yamlDoc.jobs.entries[3].job)
    /\ ~hasNoDependency(yamlDoc.jobs.entries[1].job)
    /\ Len(expectedTriggerWiring(yamlDoc.jobs.entries[3])) = 3
    /\ triggerWiringHolds

\* C13 as stated, for every pipeline: every job with no dependency is wired
\* below the trigger node.
C13_EveryPipeline ==
    (pc = "done" /\ isValidPipeline /\ isDiagramResult) => triggerWiringHolds

\* The dependencies a job declares, in order.
depsOf(job) ==
    IF job.needs = Undefined THEN <<>>
    ELSE IF job.needs.t = "str" THEN <<job.needs.s>>
    ELSE job.needs.items

\* The edges of the diagram that enter this node.
edgesInto(id) == SelectSeq(result.mermaidCode, LAMBDA l : l.k = "edge" /\ l.to = id)

\* C14: in the diagram, an unguarded job has exactly one edge from the node
\* of each dependency it declares and no other edge into it; a guarded job
\* with k >= 1 dependencies has exactly k edges into its chain's entry, one
\* from each dependency's node, and the chain's target edges into the job
\* stand in the diagram exactly once, whatever k and whatever the order in
\* which the jobs and the dependencies are declared.
C14_DependencyWiring ==
    (pc = "done" /\ isValidPipeline /\ isDiagramResult) =>
        \A i \in 1..Len(yamlDoc.jobs.entries) :
            LET e == yamlDoc.jobs.entries[i]
                deps == depsOf(e.job)
            IN  Len(deps) >= 1 =>
                    IF isGuarded(e.job)
                    THEN /\ \A d \in 1..Len(deps) :
                                occurrences(plainEdge(jobNodeId(deps[d]),
                                                      jobChain(e).entryId)) = 1
                         /\ Len(edgesInto(jobChain(e).entryId)) = Len(deps)
                         /\ \A j \in 1..Len(chainIntoJob(e)) :
                                occurrences(chainIntoJob(e)[j]) = 1
                         /\ Len(edgesInto(jobNodeId(e.name))) = Len(chainIntoJob(e))
                    ELSE /\ \A d \in 1..Len(deps) :
                                occurrences(plainEdge(jobNodeId(deps[d]),
                                                      jobNodeId(e.name))) = 1
                         /\ Len(edgesInto(jobNodeId(e.name))) = Len(deps)

\* Jobs declared dependents first: a job guarded by an OR of two guards needs
\* two jobs, listed in the reverse of their declaration order; its chain's
\* entry has two edges and the job has the chain's two target edges.
C14_Witness ==
    /\ pc = "done" /\ isValidPipeline /\ isDiagramResult
    /\ Len(yamlDoc.jobs.entries) = 3
    /\ yamlDoc.jobs.entries[1].name = NameC
    /\ yamlDoc.jobs.entries[1].job.needs = Arr(<<NameA, NameB>>)
    /\ yamlDoc.jobs.entries[1].job.if = Str(ReadmeOr)
    /\ yamlDoc.jobs.entries[2].job.needs = Str(NameA)
    /\ Len(edgesInto(jobChain(yamlDoc.jobs.entries[1]).entryId)) = 2
    /\ Len(edgesInto(jobNodeId(NameC))) = 2
    /\ Len(edgesInto(jobNodeId(NameB))) = 1

(***************************************************************************)
(* Properties of repeated translation.                                     *)
(***************************************************************************)
\* The identifiers of the badge nodes of a result.
badgeIds(r) ==
    {r.mermaidCode[i].id :
         i \in {k \in 1..Len(r.mermaidCode) :
                    /\ r.mermaidCode[k].k = "node"
                    /\ r.mermaidCode[k].shape \in {"stadium", "diamond"}}}

\* The first part of a compound guard with this root identifier.
firstPartId(rootId) == rootId \o <<"_", "p", "0">>

IdentifierUnits ==
    {"A", "B", "C", "D", "E", "F", "G", "H", "I", "J", "K", "L", "M", "N", "O", "P", "Q", "R", "S", "T", "U", "V", "W", "X", "Y", "Z"}
    \cup {"a", "b", "c", "d", "e", "f", "g", "h", "i", "j", "k", "l", "m", "n", "o", "p", "q", "r", "s", "t", "u", "v", "w", "x", "y", "z"}
    \cup {"0", "1", "2", "3", "4", "5", "6", "7", "8", "9", "_"}

\* C16: for every name, with punctuation, spaces or units outside ASCII,
\* the output of sanitizeId holds only characters of [A-Za-z0-9_], is as
\* long as the name, keeps every character of that class where it stands,
\* and sanitizeId applied to the output gives the output again.
C16_SanitizeId ==
    pc = "sanitized" =>
        /\ \A k \in 1..Len(result.id) : result.id[k] \in IdentifierUnits
        /\ Len(result.id) = Len(expr)
        /\ \A k \in 1..Len(expr) : expr[k] \in IdentifierUnits => result.id[k] = expr[k]
        /\ result.again = result.id

\* A name with a kept letter between a punctuation mark and a unit outside
\* ASCII was sanitized: both are replaced, the letter stays.
C16_Witness ==
    /\ pc = "sanitized"
    /\ expr = <<"-", "Z", "u3042">>
    /\ result.id = <<"_", "Z", "_">>
    /\ result.again = result.id

(***************************************************************************)
(* Properties of the merges.  The chain of a subtree is what               *)
(* generateChainFromAST returns for it, the part counter standing at the   *)
(* number of leaves to its left.                                           *)
(***************************************************************************)
chainIndent == chain.nodeLines[1].indent

subChain(a, offset) == generateChainFromAST(baseId, a, chainIndent, offset).chain

\* The chain of child k of a composite node.
childChain(a, offset, k) == subChain(a.children[k], offset + leavesBefore(a, k))

\* The internal edges of a node's chain that none of its children has.
mergeEdges(a, offset) ==
    SelectSeq(subChain(a, offset).internalEdges,
              LAMBDA e : \A k \in 1..Len(a.children) :
                             e \notin SeqRange(childChain(a, offset, k).internalEdges))

\* The edges that join the ids `from` of child i to the entry of child i + 1.
joins(a, offset, i, from, arrow, label) ==
    {[k |-> "edge", indent |-> chainIndent, from |-> id, arrow |-> arrow,
      label |-> label, to |-> childChain(a, offset, i + 1).entryId] : id \in from}

childExits(a, offset, k) == SeqRange(childChain(a, offset, k).skipSourceIds)

\* The AND merge of one node, as the claim gives it.
andMergeHolds(a, offset) ==
    LET n == Len(a.children)
        merged == subChain(a, offset)
        exits == UNION {childExits(a, offset, k) : k \in 1..n}
        expected == UNION {joins(a, offset, i,
                                 {t.fromId : t \in SeqRange(childChain(a, offset, i).toTargetEdges)},
                                 "-->", "AND") : i \in 1..(n - 1)}
    IN  /\ SeqRange(mergeEdges(a, offset)) = expected
        /\ Len(mergeEdges(a, offset)) = Cardinality(expected)
        /\ merged.entryId = childChain(a, offset, 1).entryId
        /\ merged.toTargetEdges = childChain(a, offset, n).toTargetEdges
        /\ SeqRange(merged.skipSourceIds) = exits
        /\ merged.isFullyAlways <=> exits = {}

RECURSIVE everyAndMerge(_, _)
everyAndMerge(a, offset) ==
    IF a.type = "atom" THEN TRUE
    ELSE /\ a.type = "and" => andMergeHolds(a, offset)
         /\ \A k \in 1..Len(a.children) :
                everyAndMerge(a.children[k], offset + leavesBefore(a, k))

\* C17: for every `and` node, at any depth, every target edge of a child is
\* joined by an AND edge to the entry of the next child and the merge adds no
\* other edge; the result's entry is the first child's, its target edges are
\* the last child's, its exit set is the union of the children's exit sets
\* and isFullyAlways holds exactly when that union is empty.  `always() && X`
\* for a falsifiable atom X has the exit set {X's node}, is not always-true
\* and its always() node is not in the exit set.
C17_AndMerge ==
    pc = "compiled" =>
        /\ ast.type # "atom" => subChain(ast, 0) = chain
        /\ everyAndMerge(ast, 0)
        /\ (/\ ast.type = "and" /\ Len(ast.children) = 2
            /\ ast.children[1] = [type |-> "atom", value |-> AlwaysText]
            /\ ast.children[2].type = "atom" /\ ast.children[2].value # AlwaysText)
               => /\ exitSet = {leafId(1)}
                  /\ ~chain.isFullyAlways
                  /\ leafId(0) \notin exitSet

\* The README's AND example was compiled: an AND edge joins the always()
\* node to the custom node, which alone is in the exit set.
C17_Witness ==
    /\ pc = "compiled" /\ expr = ReadmeAnd
    /\ ast.type = "and"
    /\ [i \in 1..Len(chain.internalEdges) |->
           <<chain.internalEdges[i].from, chain.internalEdges[i].label,
             chain.internalEdges[i].to>>] = <<<<leafId(0), "AND", leafId(1)>>>>
    /\ exitSet = {leafId(1)}
    /\ ~chain.isFullyAlways

\* The OR merge of one node, as the claim gives it.
orMergeHolds(a, offset) ==
    LET n == Len(a.children)
        merged == subChain(a, offset)
        expected == UNION {joins(a, offset, i, childExits(a, offset, i), "-.->", "OR")
                               : i \in 1..(n - 1)}
    IN  /\ SeqRange(mergeEdges(a, offset)) = expected
        /\ Len(mergeEdges(a, offset)) = Cardinality(expected)
        /\ merged.entryId = childChain(a, offset, 1).entryId
        /\ merged.toTargetEdges
               = flatten([k \in 1..n |-> childChain(a, offset, k).toTargetEdges])
        /\ merged.skipSourceIds = childChain(a, offset, n).skipSourceIds
        /\ merged.isFullyAlways <=> \A k \in 1..n : childChain(a, offset, k).isFullyAlways

RECURSIVE everyOrMerge(_, _)
everyOrMerge(a, offset) ==
    IF a.type = "atom" THEN TRUE
    ELSE /\ a.type = "or" => orMergeHolds(a, offset)
         /\ \A k \in 1..Len(a.children) :
                everyOrMerge(a.children[k], offset + leavesBefore(a, k))

\* C18: for every `or` node, at any depth, every exit id of a child is joined
\* by a dashed OR edge to the entry of the next child and the merge adds no
\* other edge; the result's target edges are the children's target edges one
\* after the other, its exit set is the last child's and isFullyAlways holds
\* exactly when every child is always-true.  `failure() || cancelled()` gives
\* two nodes, one OR edge from the first to the second and a Yes target edge
\* from each.
C18_OrMerge ==
    pc = "compiled" =>
        /\ ast.type # "atom" => subChain(ast, 0) = chain
        /\ everyOrMerge(ast, 0)
        /\ expr = ReadmeOr =>
               /\ [i \in 1..Len(chain.nodeLines) |-> chain.nodeLines[i].id]
                      = <<leafId(0), leafId(1)>>
               /\ chain.internalEdges
                      = <<[k |-> "edge", indent |-> chainIndent, from |-> leafId(0),
                           arrow |-> "-.->", label |-> "OR", to |-> leafId(1)]>>
               /\ chain.toTargetEdges = <<[fromId |-> leafId(0), label |-> "Yes"],
                                          [fromId |-> leafId(1), label |-> "Yes"]>>

\* The README's OR example was compiled to two badges, failure and cancelled,
\* with one OR edge and two target edges.
C18_Witness ==
    /\ pc = "compiled" /\ expr = ReadmeOr
    /\ ast.type = "or"
    /\ [i \in 1..Len(chain.nodeLines) |-> chain.nodeLines[i].class]
           = <<"condFailure", "condCancelled">>
    /\ Len(chain.internalEdges) = 1 /\ chain.internalEdges[1].label = "OR"
    /\ Len(chain.toTargetEdges) = 2

(***************************************************************************)
(* Properties of the identifiers of a chain.                               *)
(***************************************************************************)
\* The identifiers of the chain's badge nodes, in the order they are emitted.
nodeIds == [i \in 1..Len(chain.nodeLines) |-> chain.nodeLines[i].id]

\* C19: a guard that parses to a lone atom gives exactly one badge node,
\* whose id is the root id; a compound guard with n atom leaves gives exactly
\* n badge nodes with the ids rootId_p0 .. rootId_p(n-1), the i-th node being
\* the badge of the i-th leaf from the left; the ids of one chain are
\* pairwise distinct at any nesting depth.
C19_NodeIds ==
    pc = "compiled" =>
        /\ ast.type = "atom" => nodeIds = <<baseId>>
        /\ ast.type # "atom" =>
               nodeIds = [i \in 1..leafCount(ast) |-> leafId(i - 1)]
        /\ \A i \in 1..Len(chain.nodeLines) :
               chain.nodeLines[i]
                   = formatConditionNode(nodeIds[i], leafTexts(ast)[i], chainIndent)
        /\ \A i, j \in 1..Len(nodeIds) : i # j => nodeIds[i] # nodeIds[j]

\* A guard nested two levels deep with four leaves was compiled: its badges
\* have the ids p0 to p3, and the third badge is that of the third leaf.
C19_Witness ==
    /\ pc = "compiled"
    /\ ast.type # "atom" /\ leafCount(ast) = 4
    /\ \E k \in 1..Len(ast.children) :
           /\ ast.children[k].type # "atom"
           /\ \E m \in 1..Len(ast.children[k].children) :
                  ast.children[k].children[m].type # "atom"
    /\ nodeIds = <<leafId(0), leafId(1), leafId(2), leafId(3)>>
    /\ leafTexts(ast)[3] # leafTexts(ast)[4]
    /\ chain.nodeLines[3] = formatConditionNode(leafId(2), leafTexts(ast)[3], chainIndent)

(***************************************************************************)
(* Properties of the step edges.                                           *)
(***************************************************************************)
\* The steps a job declares.
stepsOfJob(job) == IF job.steps = Undefined THEN <<>> ELSE job.steps.items

isGuardedStep(step) == step.if # Undefined /\ step.if.s # <<>>

\* The compiled chain of guarded step number i (from 1) of a job.
stepGuardChain(entry, i) ==
    generateConditionChain(<<"c", "o", "n", "d", "_">> \o stepNodeId(entry.name, i - 1),
                           stepsOfJob(entry.job)[i].if.s, "    ")

\* The entry of step number i: its chain's entry when guarded, else its node.
stepEntry(entry, i) ==
    IF isGuardedStep(stepsOfJob(entry.job)[i]) THEN stepGuardChain(entry, i).entryId
    ELSE stepNodeId(entry.name, i - 1)

\* The Skip edges the claim gives to step number i of a job.
expectedSkips(entry, i) ==
    IF /\ isGuardedStep(stepsOfJob(entry.job)[i])
       /\ i < Len(stepsOfJob(entry.job))
       /\ ~stepGuardChain(entry, i).isFullyAlways
    THEN {[k |-> "edge", indent |-> "    ", from |-> id, arrow |-> "-.->",
           label |-> "Skip", to |-> stepEntry(entry, i + 1)] :
              id \in SeqRange(stepGuardChain(entry, i).skipSourceIds)}
    ELSE {}

\* The Skip edges of the diagram, in the order they are emitted.
skipEdges == SelectSeq(result.mermaidCode, LAMBDA l : l.k = "edge" /\ l.label = "Skip")

\* The badge ids of step number i of a job, when it is guarded.
stepBadgeIds(entry, i) ==
    IF isGuardedStep(stepsOfJob(entry.job)[i])
    THEN {stepGuardChain(entry, i).nodeLines[m].id :
              m \in 1..Len(stepGuardChain(entry, i).nodeLines)}
    ELSE {}

\* C20: the Skip edges of the diagram are, each exactly once, the dashed
\* edges from every exit id of the chain of a guarded step that is not the
\* last of its job and whose chain is not always-true to the entry of the
\* next step (its chain's entry when it is guarded, else its node); no Skip
\* edge leaves the last step, an unguarded step or an always-true chain.
C20_StepSkipEdges ==
    (pc = "done" /\ isValidPipeline /\ isDiagramResult) =>
        /\ SeqRange(skipEdges)
               = UNION {UNION {expectedSkips(yamlDoc.jobs.entries[n], i) :
                                   i \in 1..Len(stepsOfJob(yamlDoc.jobs.entries[n].job))} :
                            n \in 1..Len(yamlDoc.jobs.entries)}
        /\ \A e \in SeqRange(skipEdges) : occurrences(e) = 1
        /\ \A n \in 1..Len(yamlDoc.jobs.entries) :
               LET entry == yamlDoc.jobs.entries[n]
                   last == Len(stepsOfJob(entry.job))
               IN  \A e \in SeqRange(skipEdges) :
                       /\ last >= 1 =>
                              /\ e.from \notin stepBadgeIds(entry, last)
                              /\ e.from # stepNodeId(entry.name, last - 1)
                       /\ \A i \in 1..last :
                              /\ e.from # stepNodeId(entry.name, i - 1)
                              /\ (/\ isGuardedStep(stepsOfJob(entry.job)[i])
                                  /\ stepGuardChain(entry, i).isFullyAlways)
                                     => e.from \notin stepBadgeIds(entry, i)

\* A job with two guarded steps was drawn: the first step's guard is an OR of
\* two guards, and its one exit has a Skip edge to the entry of the second
\* step's chain.
C20_Witness ==
    /\ pc = "done" /\ isValidPipeline /\ isDiagramResult
    /\ Len(yamlDoc.jobs.entries) = 1
    /\ Len(stepsOfJob(yamlDoc.jobs.entries[1].job)) = 2
    /\ stepsOfJob(yamlDoc.jobs.entries[1].job)[1].if = Str(ReadmeOr)
    /\ isGuardedStep(stepsOfJob(yamlDoc.jobs.entries[1].job)[2])
    /\ Len(skipEdges) = 1
    /\ skipEdges[1].from = stepGuardChain(yamlDoc.jobs.entries[1], 1).skipSourceIds[1]
    /\ skipEdges[1].to = stepGuardChain(yamlDoc.jobs.entries[1], 2).entryId

(***************************************************************************)
(* Properties of the emission order.                                       *)
(***************************************************************************)
\* The position of the first job subgraph line of the diagram.
firstJobSubgraph ==
    LET code == result.mermaidCode
        isJobSubgraph(i) == code[i].k = "subgraph" /\ code[i].id # TriggersId
    IN  CHOOSE i \in 1..Len(code) :
            isJobSubgraph(i) /\ \A j \in 1..(i - 1) : ~isJobSubgraph(j)

\* The positions of the diagram that hold this line.
positionsOf(line) ==
    {p \in 1..Len(result.mermaidCode) : result.mermaidCode[p] = line}

\* The node definitions of the diagram with this identifier.
definitionsOf(id) ==
    SelectSeq(result.mermaidCode, LAMBDA l : l.k = "node" /\ l.id = id)

\* The edges of the diagram that touch the chain of a guarded job.
consumersOf(entry) ==
    SelectSeq(result.mermaidCode,
              LAMBDA l : /\ l.k = "edge"
                         /\ l.to = jobChain(entry).entryId
                         /\ l.from \in {TriggersId} \cup {jobNodeId(yamlDoc.jobs.entries[n].name) :
                                                              n \in 1..Len(yamlDoc.jobs.entries)})

\* The guard lines of one guarded job stand before the first job subgraph,
\* each node definition once.
guardEmittedOnce(entry) ==
    LET c == jobChain(entry)
    IN  /\ \A l \in SeqRange(c.nodeLines \o c.internalEdges) :
               /\ positionsOf(l) # {}
               /\ \A p \in positionsOf(l) : p < firstJobSubgraph
        /\ \A n \in 1..Len(c.nodeLines) :
               /\ occurrences(c.nodeLines[n]) = 1
               /\ Len(definitionsOf(c.nodeLines[n].id)) = 1

\* C21: in the diagram, every node definition and every internal edge of the
\* guard chain of every guarded job stands before the first job subgraph
\* line, and each such node definition stands in the diagram exactly once,
\* however many edges (from the trigger node, from each dependency) enter
\* the chain afterwards.
C21_GuardsBeforeSubgraphs ==
    (pc = "done" /\ isValidPipeline /\ isDiagramResult) =>
        \A i \in 1..Len(yamlDoc.jobs.entries) :
            isGuarded(yamlDoc.jobs.entries[i].job) =>
                guardEmittedOnce(yamlDoc.jobs.entries[i])

\* A job guarded by an OR of two guards needs two jobs, so that two edges
\* enter its chain, and a guarded job without dependency is entered from the
\* trigger node; the badges of both stand once, before the first subgraph.
C21_Witness ==
    /\ pc = "done" /\ isValidPipeline /\ isDiagramResult
    /\ Len(yamlDoc.jobs.entries) = 3
    /\ \E i, j \in 1..3 :
           /\ yamlDoc.jobs.entries[i].job.if = Str(ReadmeOr)
           /\ Len(depsOf(yamlDoc.jobs.entries[i].job)) = 2
           /\ Len(consumersOf(yamlDoc.jobs.entries[i])) = 2
           /\ Len(jobChain(yamlDoc.jobs.entries[i]).nodeLines) = 2
           /\ Len(jobChain(yamlDoc.jobs.entries[i]).internalEdges) = 1
           /\ guardEmittedOnce(yamlDoc.jobs.entries[i])
           /\ isGuarded(yamlDoc.jobs.entries[j].job)
           /\ hasNoDependency(yamlDoc.jobs.entries[j].job)
           /\ Len(consumersOf(yamlDoc.jobs.entries[j])) = 1
           /\ consumersOf(yamlDoc.jobs.entries[j])[1].from = TriggersId
           /\ guardEmittedOnce(yamlDoc.jobs.entries[j])

(***************************************************************************)
(* Properties of the job order, for any needs relation.                    *)
(***************************************************************************)
\* How often the returned order holds this name.
timesReturned(name) == Len(SelectSeq(result.jobNames, LAMBDA n : n = name))

\* C22: for any needs relation, with cycles, self-dependencies and names of
\* undeclared jobs, topologicalSort returns every declared job name exactly
\* once and no undeclared name.
C22_DeclaredNamesOnce ==
    pc = "sorted" =>
        /\ \A n \in declaredNames : timesReturned(n) = 1
        /\ SeqRange(result.jobNames) \subseteq declaredNames

(***************************************************************************)
(* Properties of the parenthesis stripping.                                *)
(***************************************************************************)
\* The inside of a text that is one parenthesized group.
interiorOf(s) == trim(SubSeq(s, 2, Len(s) - 1))

\* The first parenthesis of the trimmed text closes at its last character
\* and encloses more than white space.
strippable(s) == whollyWrapped(s) /\ interiorOf(s) # <<>>

\* The text left when every such pair is removed, outermost first.
RECURSIVE strippedText(_)
strippedText(s) ==
    IF strippable(trim(s)) THEN strippedText(interiorOf(trim(s))) ELSE trim(s)

\* The guard text the parser strips, and what the stripping step makes of it.
guardText == trim(expr)

strippedGuard == stripOuterParens(guardText)

\* C23: the stripping step removes the leading parenthesis of the trimmed
\* guard together with its matching one only when the matching one is the
\* last character and the inside holds more than white space, and does so
\* repeatedly; a text whose first parenthesis closes early, is unmatched or
\* encloses nothing is left unchanged, and the tree is the parse of the
\* stripped text.
C23_OuterParens ==
    pc = "compiled" =>
        /\ strippedGuard = strippedText(guardText)
        /\ ~strippable(guardText) => strippedGuard = guardText
        /\ strippable(guardText) =>
               /\ strippedGuard = stripOuterParens(interiorOf(guardText))
               /\ strippedGuard # guardText
        /\ ~strippable(strippedGuard)
        /\ ast = parseStripped(strippedText(guardText))

\* A guard wrapped in two pairs of parentheses was parsed as its inside.
C23_Witness ==
    /\ pc = "compiled"
    /\ expr = <<"(", "(", "x", ")", ")">>
    /\ strippedGuard = <<"x">>
    /\ ast = [type |-> "atom", value |-> <<"x">>]

(***************************************************************************)
(* Properties of the parser on malformed text.                             *)
(***************************************************************************)
\* How often a character stands in the texts of the atoms.
countInLeaves(c) ==
    Len(SelectSeq(flatten(leafTexts(ast)), LAMBDA x : x = c))

\* The closing parentheses of a text that close nothing, and the opening
\* ones that nothing closes.
unmatchedClose(s) ==
    LET depths == {depthBefore(s, i) : i \in 0..Len(s)}
    IN  0 - (CHOOSE m \in depths : \A d \in depths : m <= d)

unmatchedOpen(s) == depthBefore(s, Len(s)) + unmatchedClose(s)

\* The operands of an operator at depth 0 that hold more than white space.
nonEmptyOperands(s, operator) ==
    SelectSeq(operandsOf(s, operator), LAMBDA p : p # <<>>)

\* An operator at depth 0 lacks an operand on one side.
hasStray(s, operator) ==
    /\ topLevelAt(s, operator) # {}
    /\ \E k \in 1..Len(operandsOf(s, operator)) : operandsOf(s, operator)[k] = <<>>

\* The text holds this operator.
holds(text, operator) ==
    \E i \in 1..(Len(text) - 1) : SubSeq(text, i, i + 1) = operator

parsedParts(parts) == [k \in 1..Len(parts) |-> parseConditionExpr(parts[k])]

\* C24: on a guard with unbalanced parentheses or stray operators the parser
\* returns a tree; every parenthesis without a partner stands in the text of
\* some atom; when the stripped text has fewer than two non-empty operands
\* of || and of && at depth 0 it becomes one atom holding the raw text, its
\* operators included; when two or more non-empty operands remain, the node
\* has exactly these as children and the empty operands are dropped with the
\* operators next to them.
C24_Degrades ==
    pc = "compiled" =>
        LET s == strippedText(guardText)
            ors == nonEmptyOperands(s, OrOp)
            ands == nonEmptyOperands(s, AndOp)
        IN  /\ countInLeaves("(") >= unmatchedOpen(guardText)
            /\ countInLeaves(")") >= unmatchedClose(guardText)
            /\ (Len(ors) < 2 /\ Len(ands) < 2) => ast = [type |-> "atom", value |-> s]
            /\ Len(ors) >= 2 => ast = [type |-> "or", children |-> parsedParts(ors)]
            /\ (Len(ors) < 2 /\ Len(ands) >= 2) =>
                   ast = [type |-> "and", children |-> parsedParts(ands)]

\* A guard with an unclosed parenthesis and a trailing || became one atom
\* that holds both.
C24_Witness ==
    /\ pc = "compiled"
    /\ expr = <<"(", "x", "|", "|">>
    /\ unmatchedOpen(guardText) = 1
    /\ hasStray(<<"x", "|", "|">>, OrOp)
    /\ ast = [type |-> "atom", value |-> <<"(", "x", "|", "|">>]
    /\ countInLeaves("(") = 1 /\ countInLeaves("|") = 2

\* C24 as stated, for every stray operator: when an || or && at depth 0
\* lacks an operand on one side, the operator stands in the text of some atom.
C24_StrayOperatorsKept ==
    pc = "compiled" =>
        \A operator \in {OrOp, AndOp} :
            hasStray(strippedText(guardText), operator) =>
                \E v \in SeqRange(leafTexts(ast)) : holds(v, operator)

(***************************************************************************)
(* Properties of the always-true flag and the exit set.                    *)
(***************************************************************************)
\* An always-true chain has no exit.
flagImpliesNoExit(c) == c.isFullyAlways => c.skipSourceIds = <<>>

\* The same for the chain of every node of a tree.
RECURSIVE everyFlagImpliesNoExit(_, _)
everyFlagImpliesNoExit(a, offset) ==
    /\ flagImpliesNoExit(subChain(a, offset))
    /\ a.type # "atom" =>
           \A k \in 1..Len(a.children) :
               everyFlagImpliesNoExit(a.children[k], offset + leavesBefore(a, k))

\* The Skip edges of a step guarded by the compiled chain and followed by
\* another step.
skipsOfGuardedStep ==
    stepSkipLines(NameA, <<chain, Null>>, 1)

\* C25: a compiled chain whose isFullyAlways is true has an empty exit set,
\* and so has the chain of every node of its tree; hence a step guarded by
\* the chain and followed by another step gets one Skip edge for every id of
\* the exit set: the test of isFullyAlways suppresses none.
C25_AlwaysHasNoExit ==
    pc = "compiled" =>
        /\ flagImpliesNoExit(chain)
        /\ everyFlagImpliesNoExit(ast, 0)
        /\ Len(skipsOfGuardedStep) = Len(chain.skipSourceIds)
        /\ \A j \in 1..Len(chain.skipSourceIds) :
               skipsOfGuardedStep[j].from = chain.skipSourceIds[j]

\* An always-true chain over three badges, one of them falsifiable, was
\* compiled: the OR of a guard and always(), AND always().
C25_Witness ==
    /\ pc = "compiled"
    /\ ast.type = "and"
    /\ ast.children[1].type = "or"
    /\ \E v \in SeqRange(leafTexts(ast)) : ~isAlwaysCondition(v)
    /\ chain.isFullyAlways
    /\ chain.skipSourceIds = <<>>
    /\ Len(chain.nodeLines) = 3
    /\ skipsOfGuardedStep = <<>>

(***************************************************************************)
(* Properties of the continuations of a badge.                             *)
(***************************************************************************)
\* The number of internal edges with this label that leave a node.
edgesOut(id, label) ==
    Len(SelectSeq(chain.internalEdges, LAMBDA e : e.from = id /\ e.label = label))

\* The number of the chain's final target edges that leave a node.
targetsOut(id) == Len(SelectSeq(chain.toTargetEdges, LAMBDA t : t.fromId = id))

\* How often a node stands in the chain's final exit set.
exitsOf(id) == Len(SelectSeq(chain.skipSourceIds, LAMBDA s : s = id))

\* C26: in a compiled chain every badge has exactly one success
\* continuation, an AND edge or a final target edge and never both, and every
\* badge other than an unnegated always() has exactly one failure
\* continuation, an OR edge or a place in the final exit set and never both.
C26_OneContinuation ==
    pc = "compiled" =>
        \A i \in 1..Len(chain.nodeLines) :
            LET id == chain.nodeLines[i].id
            IN  /\ edgesOut(id, "AND") + targetsOut(id) = 1
                /\ ~isAlwaysCondition(leafTexts(ast)[i]) =>
                       edgesOut(id, "OR") + exitsOf(id) = 1

\* The README's mixed example was compiled: its first badge continues along
\* an AND edge and along an OR edge, its last to the target and to the exit.
C26_Witness ==
    /\ pc = "compiled"
    /\ expr = ReadmeMixed
    /\ Len(chain.nodeLines) = 3
    /\ edgesOut(chain.nodeLines[1].id, "AND") = 1
    /\ edgesOut(chain.nodeLines[1].id, "OR") = 1
    /\ targetsOut(chain.nodeLines[1].id) = 0
    /\ exitsOf(chain.nodeLines[1].id) = 0
    /\ targetsOut(chain.nodeLines[3].id) = 1
    /\ exitsOf(chain.nodeLines[3].id) = 1

(***************************************************************************)
(* Properties of the reachability of the badges.                           *)
(***************************************************************************)
\* The nodes reached from a set of nodes along at most `steps` internal edges.
RECURSIVE reachedFrom(_, _)
reachedFrom(ids, steps) ==
    IF steps = 0 THEN ids
    ELSE reachedFrom(ids \cup {e.to : e \in {x \in SeqRange(chain.internalEdges) :
                                                 x.from \in ids}},
                     steps - 1)

\* The badges of the chain that no path of internal edges from the entry
\* reaches.
unreachedBadges ==
    {chain.nodeLines[i].id : i \in 1..Len(chain.nodeLines)}
        \ reachedFrom({chain.entryId}, Len(chain.nodeLines))

\* C27: every badge emitted for a guard chain is reached from the chain's
\* entry along the chain's internal AND and OR edges, for every expression
\* tree, also when an always() leaf is a non-last child of an OR.
C27_AllBadgesReachable == pc = "compiled" => unreachedBadges = {}

(***************************************************************************)
(* Properties of the identifiers the edges use.                            *)
(***************************************************************************)
\* The badge lines a chain emits, and their identifiers.
badgeLines(c) == SeqRange(c.nodeLines)

idsOf(c) == {l.id : l \in badgeLines(c)}

guardedJobs == {e \in SeqRange(yamlDoc.jobs.entries) : isGuarded(e.job)}

\* The guarded steps of the pipeline, each as its job entry and its number.
guardedSteps ==
    UNION {{[entry |-> e, i |-> i] :
                i \in {k \in 1..Len(stepsOfJob(e.job)) : isGuardedStep(stepsOfJob(e.job)[k])}} :
           e \in SeqRange(yamlDoc.jobs.entries)}

\* Every chain the pipeline's guards compile to.
jobChains == {jobChain(e) : e \in guardedJobs}

stepChains == {stepGuardChain(s.entry, s.i) : s \in guardedSteps}

jobNodeIds == {jobNodeId(e.name) : e \in SeqRange(yamlDoc.jobs.entries)}

stepNodeIds ==
    UNION {{stepNodeId(e.name, i - 1) : i \in 1..Len(stepsOfJob(e.job))} :
           e \in SeqRange(yamlDoc.jobs.entries)}

diagramEdges == SelectSeq(result.mermaidCode, LAMBDA l : l.k = "edge")

\* An identifier of the guard nodes: `cond_...`.
isGuardId(id) == isPrefixOf(<<"c", "o", "n", "d", "_">>, id)

\* The identifier is defined once in the diagram, by a badge line of one of
\* these chains.
definedBy(id, chains) ==
    /\ Len(definitionsOf(id)) = 1
    /\ \E c \in chains : definitionsOf(id)[1] \in badgeLines(c)

\* The edges that wire a guarded job use the identifiers of its own chain.
jobWiringUsesOwnIds(e) ==
    LET c == jobChain(e)
        sources == {TriggersId} \cup {jobNodeId(depsOf(e.job)[d]) : d \in 1..Len(depsOf(e.job))}
    IN  /\ \A x \in SeqRange(edgesInto(jobNodeId(e.name))) : x.from \in idsOf(c)
        /\ \A x \in SeqRange(edgesInto(c.entryId)) : x.from \in sources \cup idsOf(c)
        /\ (\E x \in SeqRange(edgesInto(c.entryId)) : x.from \in sources) =>
               definedBy(c.entryId, {c})
        /\ \A id \in idsOf(c) : definedBy(id, {c})

\* The edges that wire a guarded step use the identifiers of its own chain.
stepWiringUsesOwnIds(s) ==
    LET c == stepGuardChain(s.entry, s.i)
    IN  /\ \A x \in SeqRange(edgesInto(stepNodeId(s.entry.name, s.i - 1))) :
               isGuardId(x.from) =>
                   \/ x.from \in idsOf(c)
                   \/ /\ x.label = "Skip"
                      /\ [entry |-> s.entry, i |-> s.i - 1] \in guardedSteps
                      /\ x.from \in idsOf(stepGuardChain(s.entry, s.i - 1))
        /\ \A id \in idsOf(c) : definedBy(id, {c})

\* C28: every guard-node identifier at an end of an edge of the diagram (an
\* edge from the trigger node, a dependency edge, a step edge, a Skip edge or
\* an edge inside a chain) is the identifier of exactly one badge definition
\* of the diagram, emitted for the same guard: the edges that wire a guarded
\* job or step start from and enter the badges of that job's or step's own
\* chain.
C28_GuardIdsDefined ==
    (pc = "done" /\ isValidPipeline /\ isDiagramResult) =>
        /\ \A n \in 1..Len(diagramEdges) :
               \A id \in {diagramEdges[n].from, diagramEdges[n].to} :
                   isGuardId(id) => definedBy(id, jobChains \cup stepChains)
        /\ \A e \in guardedJobs : jobWiringUsesOwnIds(e)
        /\ \A s \in guardedSteps : stepWiringUsesOwnIds(s)

\* A guarded job without dependency and a job guarded by an OR of two
\* guards that needs two jobs were wired below a trigger node: the edges from
\* the trigger node and from the dependencies enter badges defined once.
C28_Witness ==
    /\ pc = "done" /\ isValidPipeline /\ isDiagramResult
    /\ truthy(yamlDoc.on)
    /\ \E e, f \in guardedJobs :
           /\ hasNoDependency(e.job)
           /\ \E x \in SeqRange(edgesInto(jobChain(e).entryId)) : x.from = TriggersId
           /\ Len(depsOf(f.job)) = 2
           /\ Len(edgesInto(jobChain(f).entryId)) = 2
           /\ Cardinality(idsOf(jobChain(f))) = 2
           /\ jobWiringUsesOwnIds(e) /\ jobWiringUsesOwnIds(f)

(***************************************************************************)
(* Properties of the sources of the dependency edges.                      *)
(***************************************************************************)
\* The edges generateJobEdges draws from the node of a dependency.
dependencyEdges ==
    SelectSeq(result.mermaidCode,
              LAMBDA l : /\ l.k = "edge"
                         /\ l.indent = "  "
                         /\ isPrefixOf(<<"j", "o", "b", "_">>, l.from))

\* The identifiers of the job subgraphs of the diagram.
subgraphIds ==
    {l.id : l \in {x \in SeqRange(result.mermaidCode) : x.k = "subgraph"}}

\* C29: every dependency edge of the diagram starts from the node of a job
\* that the job mapping declares and that has a subgraph in the diagram,
\* also when needs names a job that is not declared.
C29_DependencySourcesDeclared ==
    (pc = "done" /\ isValidPipeline /\ isDiagramResult) =>
        \A n \in 1..Len(dependencyEdges) :
            /\ dependencyEdges[n].from \in jobNodeIds
            /\ dependencyEdges[n].from \in subgraphIds

(***************************************************************************)
(* Properties of the identifiers the diagram defines.                      *)
(***************************************************************************)
\* The lines of the diagram that define an identifier: subgraphs and nodes.
definingLines ==
    SelectSeq(result.mermaidCode, LAMBDA l : l.k \in {"subgraph", "node"})

\* Every character of the name is a letter, a digit or an underscore.
isIdentifierSafe(name) == sanitizeId(name) = name

namesSafeAndDistinct ==
    /\ \A i \in 1..Len(yamlDoc.jobs.entries) : isIdentifierSafe(yamlDoc.jobs.entries[i].name)
    /\ \A i, j \in 1..Len(yamlDoc.jobs.entries) :
           i # j => yamlDoc.jobs.entries[i].name # yamlDoc.jobs.entries[j].name

\* C30: in the diagram of a pipeline whose job names are identifier-safe and
\* pairwise distinct, the identifiers defined (job subgraphs, step nodes, job
\* guard nodes, step guard nodes, placeholder nodes, trigger nodes) are
\* pairwise distinct.
C30_IdentifiersDistinct ==
    (pc = "done" /\ isValidPipeline /\ isDiagramResult /\ namesSafeAndDistinct) =>
        \A i, j \in 1..Len(definingLines) :
            i # j => definingLines[i].id # definingLines[j].id

====
